---- MODULE Spec2Model ----
(***************************************************************************)
(* Fold extraction, overlap resolution and rendering of the synfold tool   *)
(* (tools/mta_rust_structuralcode_synfold/crates/core).                    *)
(*                                                                         *)
(* A source text is a sequence of characters, each given by its width in   *)
(* bytes; byte offsets count from 0.  A rendered string is a sequence of   *)
(* tokens: [byte |-> p] stands for the byte at offset p of the source, a   *)
(* record with a preview stands for a placeholder.                         *)
(***************************************************************************)
EXTENDS Integers, Sequences, FiniteSets, TLC

VARIABLES
    pc,        \* position of the run: "ready", then the operation that ran
    source,    \* the text handed to the renderer (character widths)
    folds,     \* the candidate list (input of render, output of extraction)
    config,    \* ScanConfig: fold_filter, min_fold_lines, preview_mode
    active,    \* the resolver's result (sort + filter_overlapping_folds)
    output,    \* the rendered string
    replaced,  \* the regions render replaced by a placeholder, in order
    tree,      \* the syntax tree handed to the extractor
    lang,      \* the language of the extractor
    preview_text,  \* the string a preview generator returned, None before it ran
    scan,      \* FoldScanner::scan: the discovered files, the workers, the results
    rendered_file  \* the RenderedFile of render_file, None before it ran

vars == <<pc, source, folds, config, active, output, replaced, tree, lang, preview_text, scan, rendered_file>>

(***************************************************************************)
(* Bounds of the model.                                                    *)
(***************************************************************************)
MaxByte == 4        \* largest byte offset of a resolver candidate
MaxFolds == 3       \* longest candidate list handed to the resolver
MaxTextBytes == 3   \* longest rendered text, in bytes
MaxRenderFolds == 2 \* longest candidate list handed to render
MaxSiblings == 4    \* most top-level statements of a tree
MaxLinks == 4       \* most links of a call chain
MaxItems == 2       \* most top-level constructs of a tree
MaxBodyLines == 3   \* most lines of a body, and largest min_fold_lines
MaxStmts == 3       \* most statements of a previewed function body
MaxImports == 2     \* most statements of an import run with names
MaxKeys == 6        \* most entries of a dictionary or object literal
MaxSourceLines == 2 \* most body lines of a function previewed in Source mode
MaxWalkItems == 1   \* most top-level constructs of a file with nested constructs
MaxAnyTextBytes == 2 \* longest text rendered with arbitrary byte ranges
MaxBeyond == 1       \* how far past the end of the text a byte range may reach
MaxAnyFolds == 2     \* longest list of arbitrary byte ranges handed to render
MaxFiles == 2        \* most files a scan discovers
MaxThreads == 2      \* most workers of the pool

(***************************************************************************)
(* models.rs: fold categories, FoldFilter, FoldRegion.                     *)
(***************************************************************************)
FoldType ==
    {"Block", "Import", "ArgList", "ChainedCall", "Literal", "Comment",
     "DocComment", "ClassBody", "ArrayLiteral", "ObjectLiteral"}

PreviewMode == {"Minimal", "Names", "Flow", "Source"}

None == [some |-> FALSE]
Some(v) == [some |-> TRUE, val |-> v]

\* no scan is running
NoScan == [source_files |-> <<>>]

FoldFilter_all == [t \in FoldType |-> TRUE]

FoldFilter_default_set ==
    [t \in FoldType |-> t \notin {"ArgList", "ChainedCall", "DocComment", "ClassBody"}]

should_fold(filter, fold_type) == filter[fold_type]

\* FoldRegion::new; the columns are carried by no decision and are left out.
FoldRegion_new(fold_type, start_byte, end_byte, start_line, end_line) ==
    [fold_type  |-> fold_type,
     start_byte |-> start_byte,
     end_byte   |-> end_byte,
     start_line |-> start_line,
     end_line   |-> end_line,
     line_count |-> IF end_line >= start_line THEN end_line - start_line + 1 ELSE 1,
     preview    |-> None]

contains(a, b) == a.start_byte <= b.start_byte /\ a.end_byte >= b.end_byte

overlaps(a, b) == a.start_byte < b.end_byte /\ a.end_byte > b.start_byte

(***************************************************************************)
(* engine/renderer.rs: the overlap resolver.                               *)
(***************************************************************************)
\* the key (start_byte, -(end_byte as i64)) of render's sort
FoldKeyLess(a, b) ==
    \/ a.start_byte < b.start_byte
    \/ a.start_byte = b.start_byte /\ a.end_byte > b.end_byte

\* the key start_byte of the resolver's final sort
StartKeyLess(a, b) == a.start_byte < b.start_byte

StartKeyGreater(a, b) == a.start_byte > b.start_byte

\* no sort: the candidates in the order they were supplied
SuppliedOrder(s) == s

\* sort_by_key is a stable sort: x goes behind every element not greater.
RECURSIVE InsertByFoldKey(_, _)
InsertByFoldKey(x, s) ==
    IF s = <<>> THEN <<x>>
    ELSE IF FoldKeyLess(x, Head(s)) THEN <<x>> \o s
    ELSE <<Head(s)>> \o InsertByFoldKey(x, Tail(s))

RECURSIVE SortByFoldKey(_)
SortByFoldKey(s) ==
    IF s = <<>> THEN <<>>
    ELSE InsertByFoldKey(s[Len(s)], SortByFoldKey(SubSeq(s, 1, Len(s) - 1)))

RECURSIVE InsertByStartDesc(_, _)
InsertByStartDesc(x, s) ==
    IF s = <<>> THEN <<x>>
    ELSE IF StartKeyGreater(x, Head(s)) THEN <<x>> \o s
    ELSE <<Head(s)>> \o InsertByStartDesc(x, Tail(s))

RECURSIVE SortByStartDesc(_)
SortByStartDesc(s) ==
    IF s = <<>> THEN <<>>
    ELSE InsertByStartDesc(s[Len(s)], SortByStartDesc(SubSeq(s, 1, Len(s) - 1)))

RECURSIVE InsertByStart(_, _)
InsertByStart(x, s) ==
    IF s = <<>> THEN <<x>>
    ELSE IF StartKeyLess(x, Head(s)) THEN <<x>> \o s
    ELSE <<Head(s)>> \o InsertByStart(x, Tail(s))

RECURSIVE SortByStart(_)
SortByStart(s) ==
    IF s = <<>> THEN <<>>
    ELSE InsertByStart(s[Len(s)], SortByStart(SubSeq(s, 1, Len(s) - 1)))

\* a resolver step that forgets the nesting test and accepts every candidate
FilterStepAcceptAll(result, fold) ==
    Append(SelectSeq(result, LAMBDA f : ~contains(fold, f)), fold)

\* one iteration of the loop of filter_overlapping_folds
FilterStep(result, fold) ==
    LET is_nested == \E i \in DOMAIN result :
            result[i].start_byte <= fold.start_byte /\ result[i].end_byte >= fold.end_byte
    IN  IF is_nested THEN result
        ELSE Append(SelectSeq(result, LAMBDA f :
                        ~(fold.start_byte <= f.start_byte /\ fold.end_byte >= f.end_byte)),
                    fold)

\* a loop that tests each candidate against the candidate before it only
FilterLoopAgainstNeighbour(fs, result) ==
    LET kept == SelectSeq([i \in DOMAIN fs |-> i],
                          LAMBDA i : i = 1 \/ ~contains(fs[i - 1], fs[i]))
    IN  result \o [k \in DOMAIN kept |-> fs[kept[k]]]

RECURSIVE FilterLoop(_, _)
FilterLoop(fs, result) ==
    IF fs = <<>> THEN result
    ELSE FilterLoop(Tail(fs), FilterStep(result, Head(fs)))

filter_overlapping_folds(fs) == SortByStart(FilterLoop(fs, <<>>))

\* render, lines 27-32: the resolver applied to the list as supplied
Resolve(fs) == filter_overlapping_folds(SortByFoldKey(fs))

(***************************************************************************)
(* Resolver runs: any list of candidates, in any order.                    *)
(***************************************************************************)
Ranges == {r \in (0..MaxByte) \X (0..MaxByte) : r[1] <= r[2]}

Candidate(r) == FoldRegion_new("Block", r[1], r[2], 1, 1)

CandidateLists ==
    UNION {[1..n -> {Candidate(r) : r \in Ranges}] : n \in 0..MaxFolds}

EmptyTree == <<>>

ResolveInit ==
    /\ pc = "ready"
    /\ folds \in CandidateLists
    /\ source = <<>>
    /\ config = [fold_filter |-> FoldFilter_all, min_fold_lines |-> 2,
                 preview_mode |-> "Flow"]
    /\ active = <<>>
    /\ output = <<>>
    /\ replaced = <<>>
    /\ tree = EmptyTree
    /\ lang = "none"
    /\ preview_text = None
    /\ scan = NoScan
    /\ rendered_file = None

DoResolve ==
    /\ pc = "ready"
    /\ active' = Resolve(folds)
    /\ pc' = "resolved"
    /\ UNCHANGED <<source, folds, config, output, replaced, tree, lang, preview_text, scan, rendered_file>>

ResolveNext == DoResolve

SpecResolve == ResolveInit /\ [][ResolveNext]_vars

(***************************************************************************)
(* engine/renderer.rs: render and render_ansi.                             *)
(***************************************************************************)
RECURSIVE SumWidths(_, _)
SumWidths(src, n) == IF n = 0 THEN 0 ELSE src[n] + SumWidths(src, n - 1)

\* source.len(): the length of the text in bytes
len_bytes(src) == SumWidths(src, Len(src))

\* Rope::byte_to_char: the index of the character the byte belongs to, the
\* one-past-the-end index for the one-past-the-end byte
byte_to_char(src, b) == Cardinality({c \in 1..Len(src) : SumWidths(src, c) <= b})

\* the bytes of rope.slice(start_char..end_char)
rope_slice(src, start_char, end_char) ==
    LET from == SumWidths(src, start_char)
        to   == SumWidths(src, end_char)
    IN  [i \in 1..(to - from) |-> [byte |-> from + i - 1]]

\* source.to_string() with nothing folded, dropped
to_string_empty(src) == <<>>

\* source.to_string()
to_string(src) == [i \in 1..len_bytes(src) |-> [byte |-> i - 1]]

\* "/* {preview} ({line_count} lines) */" or "/* {preview} */"
format_placeholder(fold) ==
    [preview |-> IF fold.preview.some THEN fold.preview.val ELSE "...",
     lines   |-> IF fold.line_count > 1 THEN Some(fold.line_count) ELSE None,
     style   |-> None]

get_fold_color(fold_type) ==
    CASE fold_type \in {"Block", "ClassBody"} -> "Blue"
      [] fold_type \in {"Import", "DocComment"} -> "Green"
      [] fold_type = "ArgList" -> "Yellow"
      [] fold_type = "ChainedCall" -> "Magenta"
      [] fold_type \in {"Literal", "ArrayLiteral", "ObjectLiteral"} -> "Cyan"
      [] fold_type = "Comment" -> "White"

\* a styled placeholder that leaves the line count out
format_placeholder_ansi_without_lines(fold) ==
    [preview |-> IF fold.preview.some THEN fold.preview.val ELSE "...",
     lines   |-> None,
     style   |-> Some(IF get_fold_color(fold.fold_type) = "White" THEN "Gray"
                      ELSE get_fold_color(fold.fold_type))]

\* the same placeholder between dim + colour and reset
format_placeholder_ansi(fold) ==
    [preview |-> IF fold.preview.some THEN fold.preview.val ELSE "...",
     lines   |-> IF fold.line_count > 1 THEN Some(fold.line_count) ELSE None,
     style   |-> Some(IF get_fold_color(fold.fold_type) = "White" THEN "Gray"
                      ELSE get_fold_color(fold.fold_type))]

\* the state of the loop: the cursor, the string built so far, the regions
\* replaced so far, and whether a rope index was out of bounds
RenderStart == [current_byte |-> 0, result |-> <<>>, replaced |-> <<>>, panicked |-> FALSE]

\* an iteration that leaves the cursor at the start of the region it folded
RenderStepCursorAtStart(src, filter, ansi, acc, fold) ==
    IF ~should_fold(filter, fold.fold_type) \/ fold.start_byte < acc.current_byte THEN acc
    ELSE [current_byte |-> fold.start_byte,
          result       |-> acc.result
                           \o rope_slice(src, byte_to_char(src, acc.current_byte),
                                         byte_to_char(src, fold.start_byte))
                           \o <<format_placeholder(fold)>>,
          replaced     |-> Append(acc.replaced, fold),
          panicked     |-> FALSE]

\* one iteration of the loop over active_folds
RenderStep(src, filter, ansi, acc, fold) ==
    IF acc.panicked THEN acc
    ELSE IF ~should_fold(filter, fold.fold_type) THEN acc
    ELSE IF fold.start_byte < acc.current_byte THEN acc
    ELSE IF fold.start_byte > acc.current_byte /\ fold.start_byte > len_bytes(src)
         THEN [acc EXCEPT !.panicked = TRUE]
    ELSE
        LET before == IF fold.start_byte > acc.current_byte
                      THEN rope_slice(src, byte_to_char(src, acc.current_byte),
                                      byte_to_char(src, fold.start_byte))
                      ELSE <<>>
            ph == IF ansi THEN format_placeholder_ansi(fold) ELSE format_placeholder(fold)
        IN  [current_byte |-> fold.end_byte,
             result       |-> acc.result \o before \o <<ph>>,
             replaced     |-> Append(acc.replaced, fold),
             panicked     |-> FALSE]

RECURSIVE RenderLoop(_, _, _, _, _)
RenderLoop(src, filter, ansi, acc, fs) ==
    IF fs = <<>> THEN acc
    ELSE RenderLoop(src, filter, ansi, RenderStep(src, filter, ansi, acc, Head(fs)), Tail(fs))

\* the remaining text after the last fold
RenderTail(src, acc) ==
    IF ~acc.panicked /\ acc.current_byte < len_bytes(src)
    THEN [acc EXCEPT !.result =
              acc.result \o rope_slice(src, byte_to_char(src, acc.current_byte), Len(src))]
    ELSE acc

RenderWith(src, fs, filter, ansi) ==
    IF fs = <<>>
    THEN [RenderStart EXCEPT !.result = to_string(src)]
    ELSE RenderTail(src, RenderLoop(src, filter, ansi, RenderStart, Resolve(fs)))

render(src, fs, filter) == RenderWith(src, fs, filter, FALSE)

render_ansi(src, fs, filter) == RenderWith(src, fs, filter, TRUE)

(***************************************************************************)
(* Render runs: a text, a candidate list inside it, a policy.              *)
(***************************************************************************)
RECURSIVE TextsOfBytes(_)
TextsOfBytes(n) ==
    IF n = 0 THEN {<<>>}
    ELSE {<<1>> \o t : t \in TextsOfBytes(n - 1)}
         \cup (IF n >= 2 THEN {<<2>> \o t : t \in TextsOfBytes(n - 2)} ELSE {})

Texts == UNION {TextsOfBytes(n) : n \in 0..MaxTextBytes}

\* a function body with a signature preview, a one-line comment without one
RegionsIn(src) ==
    LET n == len_bytes(src)
    IN  {[FoldRegion_new("Block", s, e, 1, 3) EXCEPT !.preview = Some("fn f()")] :
             <<s, e>> \in {r \in (0..n) \X (0..n) : r[1] <= r[2]}}
        \cup {FoldRegion_new("Comment", s, e, 2, 2) :
             <<s, e>> \in {r \in (0..n) \X (0..n) : r[1] <= r[2]}}

Filters ==
    {[FoldFilter_all EXCEPT !["Block"] = b, !["Comment"] = c] : b, c \in BOOLEAN}

RenderInit ==
    /\ pc = "ready"
    /\ source \in Texts
    /\ folds \in UNION {[1..k -> RegionsIn(source)] : k \in 0..MaxRenderFolds}
    /\ \E f \in Filters :
          config = [fold_filter |-> f, min_fold_lines |-> 2, preview_mode |-> "Flow"]
    /\ active = <<>>
    /\ output = <<>>
    /\ replaced = <<>>
    /\ tree = EmptyTree
    /\ lang = "none"
    /\ preview_text = None
    /\ scan = NoScan
    /\ rendered_file = None

\* render returns its string, or unwinds when a rope index was out of bounds
Render ==
    /\ pc = "ready"
    /\ LET r == render(source, folds, config.fold_filter)
       IN  /\ output' = IF r.panicked THEN <<>> ELSE r.result
           /\ replaced' = IF r.panicked THEN <<>> ELSE r.replaced
           /\ pc' = IF r.panicked THEN "panicked" ELSE "render"
    /\ active' = IF folds = <<>> THEN <<>> ELSE Resolve(folds)
    /\ UNCHANGED <<source, folds, config, tree, lang, preview_text, scan, rendered_file>>

RenderAnsi ==
    /\ pc = "ready"
    /\ LET r == render_ansi(source, folds, config.fold_filter)
       IN  /\ output' = IF r.panicked THEN <<>> ELSE r.result
           /\ replaced' = IF r.panicked THEN <<>> ELSE r.replaced
           /\ pc' = IF r.panicked THEN "panicked" ELSE "render_ansi"
    /\ active' = IF folds = <<>> THEN <<>> ELSE Resolve(folds)
    /\ UNCHANGED <<source, folds, config, tree, lang, preview_text, scan, rendered_file>>

RenderNext == Render \/ RenderAnsi

SpecRender == RenderInit /\ [][RenderNext]_vars

(***************************************************************************)
(* Render runs over arbitrary byte ranges: a region may start or end past  *)
(* the end of the text, end before it starts, be empty, or occur twice.    *)
(***************************************************************************)
ShortTexts == UNION {TextsOfBytes(n) : n \in 0..MaxAnyTextBytes}

RegionsAround(src) ==
    LET n == len_bytes(src) + MaxBeyond
    IN  {[FoldRegion_new("Block", s, e, 1, 3) EXCEPT !.preview = Some("fn f()")] :
             <<s, e>> \in (0..n) \X (0..n)}

BlockFilters == {[FoldFilter_all EXCEPT !["Block"] = b] : b \in BOOLEAN}

RenderAnyInit ==
    /\ pc = "ready"
    /\ source \in ShortTexts
    /\ folds \in UNION {[1..k -> RegionsAround(source)] : k \in 0..MaxAnyFolds}
    /\ \E f \in BlockFilters :
          config = [fold_filter |-> f, min_fold_lines |-> 2, preview_mode |-> "Flow"]
    /\ active = <<>>
    /\ output = <<>>
    /\ replaced = <<>>
    /\ tree = EmptyTree
    /\ lang = "none"
    /\ preview_text = None
    /\ scan = NoScan
    /\ rendered_file = None

SpecRenderAny == RenderAnyInit /\ [][RenderNext]_vars

(***************************************************************************)
(* The syntax tree handed to the extractors: a sequence of nodes in        *)
(* document (pre-order) order, node 1 the root.  A node carries its kind,  *)
(* its parent (0 for the root), the field name under which its parent      *)
(* holds it, its byte range, its rows and the leading token of its text.   *)
(***************************************************************************)
Node(kind, parent, field, start_byte, end_byte, start_row, end_row, text) ==
    [kind |-> kind, parent |-> parent, field |-> field,
     start_byte |-> start_byte, end_byte |-> end_byte,
     start_row |-> start_row, end_row |-> end_row, text |-> text]

\* node.children(): the ids of the children of n, in order
children(t, n) == SelectSeq([i \in 1..Len(t) |-> i], LAMBDA i : t[i].parent = n)

\* node.prev_sibling(), 0 when there is none
prev_sibling(t, n) ==
    LET before == {i \in 1..(n - 1) : t[i].parent = t[n].parent}
    IN  IF t[n].parent = 0 \/ before = {} THEN 0
        ELSE CHOOSE i \in before : \A j \in before : j <= i

\* node.next_sibling(), 0 when there is none
next_sibling(t, n) ==
    LET after == {i \in (n + 1)..Len(t) : t[i].parent = t[n].parent}
    IN  IF t[n].parent = 0 \/ after = {} THEN 0
        ELSE CHOOSE i \in after : \A j \in after : i <= j

\* node.child_by_field_name(field), 0 when there is none
child_by_field_name(t, n, field) ==
    LET held == {i \in 1..Len(t) : t[i].parent = n /\ t[i].field = field}
    IN  IF held = {} THEN 0 ELSE CHOOSE i \in held : \A j \in held : i <= j

\* node.child(0), 0 when there is none
first_child(t, n) == IF children(t, n) = <<>> THEN 0 ELSE children(t, n)[1]

multi_line(t, n) == t[n].end_row > t[n].start_row

(***************************************************************************)
(* parsers/python.rs and parsers/javascript.rs: what both extractors share.*)
(* A preview made by a preview generator is kept as the generator's name   *)
(* and the preview mode it was given; the chain preview is kept in full.   *)
(***************************************************************************)
create_fold(t, n, fold_type) ==
    FoldRegion_new(fold_type, t[n].start_byte, t[n].end_byte,
                   t[n].start_row + 1, t[n].end_row + 1)

with_preview(fold, preview) == [fold EXCEPT !.preview = Some(preview)]

generated(by, mode) == [by |-> by, mode |-> mode]

\* format!("...chain ({} calls)", depth)
chain_preview(depth) == [text |-> "...chain (N calls)", N |-> depth]

\* the loop of detect_chain: the calls counted leftward from `current`
RECURSIVE chain_depth(_, _, _, _, _)
chain_depth(t, current, depth, call_kind, member_kind) ==
    IF t[current].kind # call_kind THEN depth
    ELSE LET func == child_by_field_name(t, current, "function")
             obj  == IF func # 0 THEN child_by_field_name(t, func, "object") ELSE 0
         IN  IF func # 0 /\ t[func].kind = member_kind /\ obj # 0
             THEN chain_depth(t, obj, depth + 1, call_kind, member_kind)
             ELSE depth + 1

\* a detect_chain that also folds chains of two calls
detect_chain_from_two(t, n, call_kind, member_kind) ==
    LET depth == chain_depth(t, n, 0, call_kind, member_kind)
    IN  IF depth >= 2 /\ multi_line(t, n)
        THEN <<with_preview(create_fold(t, n, "ChainedCall"), chain_preview(depth))>>
        ELSE <<>>

\* detect_chain: the region as a list of zero or one regions
detect_chain(t, n, call_kind, member_kind) ==
    LET depth == chain_depth(t, n, 0, call_kind, member_kind)
    IN  IF depth >= 3 /\ multi_line(t, n)
        THEN <<with_preview(FoldRegion_new("ChainedCall", t[n].start_byte, t[n].end_byte,
                                           t[n].start_row + 1, t[n].end_row + 1),
                            chain_preview(depth))>>
        ELSE <<>>

\* the forward walk of collect_import_block from sibling `next`
RECURSIVE import_walk(_, _, _, _, _)
import_walk(t, next, end_node, import_count, import_kinds) ==
    IF next = 0 THEN [end_node |-> end_node, import_count |-> import_count]
    ELSE IF t[next].kind \in import_kinds
         THEN import_walk(t, next_sibling(t, next), next, import_count + 1, import_kinds)
    ELSE IF t[next].kind = "comment"
         THEN import_walk(t, next_sibling(t, next), end_node, import_count, import_kinds)
    ELSE [end_node |-> end_node, import_count |-> import_count]

\* a collect_import_block that also emits a run of one import
collect_import_block_from_one(t, start_node, mode, import_kinds) ==
    LET w == import_walk(t, next_sibling(t, start_node), start_node, 1, import_kinds)
    IN  <<with_preview(
            FoldRegion_new("Import", t[start_node].start_byte, t[w.end_node].end_byte,
                           t[start_node].start_row + 1, t[w.end_node].end_row + 1),
            generated("generate_import_preview", mode))>>

\* collect_import_block: the region as a list of zero or one regions
collect_import_block(t, start_node, mode, import_kinds) ==
    LET w == import_walk(t, next_sibling(t, start_node), start_node, 1, import_kinds)
    IN  IF w.import_count >= 2
        THEN <<with_preview(
                FoldRegion_new("Import", t[start_node].start_byte, t[w.end_node].end_byte,
                               t[start_node].start_row + 1, t[w.end_node].end_row + 1),
                generated("generate_import_preview", mode))>>
        ELSE <<>>

\* the filter of extract_folds with > in the place of >=
keep_fold_above(f, min_fold_lines) ==
    IF f.fold_type \in {"Block", "ClassBody"} THEN f.line_count > min_fold_lines
    ELSE IF f.fold_type \in {"Import", "Literal", "ArrayLiteral", "ObjectLiteral"}
         THEN f.line_count >= 2
    ELSE TRUE

\* the filter of extract_folds
keep_fold(f, min_fold_lines) ==
    CASE f.fold_type \in {"Block", "ClassBody"} -> f.line_count >= min_fold_lines
      [] f.fold_type = "Import" -> f.line_count >= 2
      [] f.fold_type \in {"Literal", "ArrayLiteral", "ObjectLiteral"} -> f.line_count >= 2
      [] OTHER -> TRUE

RECURSIVE Flatten(_)
Flatten(ss) == IF ss = <<>> THEN <<>> ELSE Head(ss) \o Flatten(Tail(ss))

(***************************************************************************)
(* parsers/python.rs                                                       *)
(***************************************************************************)
PyImportKinds == {"import_statement", "import_from_statement"}

\* the backward walk of the import arm from sibling ps: TRUE when the import
\* it started from opens a run
RECURSIVE py_first_import(_, _)
py_first_import(t, ps) ==
    IF ps = 0 THEN TRUE
    ELSE IF t[ps].kind \in PyImportKinds THEN FALSE
    ELSE IF t[ps].kind # "comment" /\ t[ps].kind # "" THEN TRUE
    ELSE py_first_import(t, prev_sibling(t, ps))

\* the match of traverse_node: the regions pushed for node n itself
py_node_folds(t, n, cfg) ==
    LET kind == t[n].kind
        ff   == cfg.fold_filter
        mode == cfg.preview_mode
        body == child_by_field_name(t, n, "body")
        c0   == first_child(t, n)
    IN  CASE kind \in {"function_definition", "async_function_definition"} ->
                IF ff["Block"] /\ body # 0
                THEN <<with_preview(create_fold(t, body, "Block"),
                                    generated("generate_function_preview", mode))>>
                ELSE <<>>
          [] kind = "class_definition" ->
                IF ff["ClassBody"] /\ body # 0
                THEN <<with_preview(create_fold(t, body, "ClassBody"),
                                    generated("get_class_signature", "any"))>>
                ELSE <<>>
          [] kind \in PyImportKinds ->
                IF ff["Import"] /\ t[n].parent # 0 /\ py_first_import(t, prev_sibling(t, n))
                THEN collect_import_block(t, n, mode, PyImportKinds)
                ELSE <<>>
          [] kind = "parameters" ->
                IF ff["ArgList"] /\ multi_line(t, n)
                THEN <<create_fold(t, n, "ArgList")>>
                ELSE <<>>
          [] kind \in {"string", "concatenated_string"} ->
                IF ff["Literal"] /\ multi_line(t, n)
                THEN <<with_preview(create_fold(t, n, "Literal"),
                                    [text |-> "'...' (N lines)",
                                     N |-> create_fold(t, n, "Literal").line_count])>>
                ELSE <<>>
          [] kind = "comment" ->
                IF ff["Comment"] /\ multi_line(t, n)
                THEN <<create_fold(t, n, "Comment")>>
                ELSE <<>>
          [] kind = "expression_statement" ->
                IF /\ ff["DocComment"]
                   /\ c0 # 0
                   /\ t[c0].kind = "string"
                   /\ t[c0].text \in {"doc-double", "doc-single"}
                   /\ multi_line(t, c0)
                THEN <<with_preview(create_fold(t, c0, "DocComment"),
                                    [text |-> "'''...''' (N lines)",
                                     N |-> create_fold(t, c0, "DocComment").line_count])>>
                ELSE <<>>
          [] kind \in {"list", "tuple"} ->
                IF ff["ArrayLiteral"] /\ multi_line(t, n)
                THEN <<with_preview(create_fold(t, n, "ArrayLiteral"),
                                    [text |-> "[...] (N lines)",
                                     N |-> create_fold(t, n, "ArrayLiteral").line_count])>>
                ELSE <<>>
          [] kind \in {"dictionary", "set"} ->
                IF ff["ObjectLiteral"] /\ multi_line(t, n)
                THEN <<with_preview(create_fold(t, n, "ObjectLiteral"),
                                    generated("generate_dict_preview", mode))>>
                ELSE <<>>
          [] kind = "call" ->
                IF ff["ChainedCall"] THEN detect_chain(t, n, "call", "attribute") ELSE <<>>
          [] OTHER -> <<>>

\* traverse_node: the regions of n, then those of its children in order
RECURSIVE py_traverse_node(_, _, _)
py_traverse_node(t, n, cfg) ==
    py_node_folds(t, n, cfg)
    \o Flatten([i \in DOMAIN children(t, n) |->
                    py_traverse_node(t, children(t, n)[i], cfg)])

py_extract_folds(t, cfg) ==
    SelectSeq(SortByFoldKey(py_traverse_node(t, 1, cfg)),
              LAMBDA f : keep_fold(f, cfg.min_fold_lines))

(***************************************************************************)
(* parsers/javascript.rs                                                   *)
(***************************************************************************)
JsImportKinds == {"import_statement"}

JsFunctionKinds ==
    {"function_declaration", "function", "arrow_function", "method_definition",
     "generator_function_declaration", "generator_function"}

\* is_first_import of the import arm
js_first_import(t, n) ==
    LET prev == prev_sibling(t, n)
    IN  prev = 0 \/ (t[prev].kind # "import_statement" /\ t[prev].kind # "comment")

\* the object_type child an interface or type alias arm looks at, 0 when none
js_object_type(t, n) ==
    LET held == {i \in 1..Len(t) : t[i].parent = n /\ t[i].kind = "object_type"}
    IN  IF held = {} THEN 0 ELSE CHOOSE i \in held : \A j \in held : i <= j

\* the match of traverse_node: the regions pushed for node n itself
js_node_folds(t, n, cfg) ==
    LET kind == t[n].kind
        ff   == cfg.fold_filter
        mode == cfg.preview_mode
        body == child_by_field_name(t, n, "body")
        ot   == js_object_type(t, n)
    IN  CASE kind \in JsFunctionKinds ->
                IF ff["Block"] /\ body # 0 /\ t[body].kind = "statement_block"
                THEN <<with_preview(create_fold(t, body, "Block"),
                                    generated("generate_function_preview", mode))>>
                ELSE <<>>
          [] kind \in {"class_declaration", "class"} ->
                IF ff["ClassBody"] /\ body # 0
                THEN <<with_preview(create_fold(t, body, "ClassBody"),
                                    generated("get_class_signature", "any"))>>
                ELSE <<>>
          [] kind = "import_statement" ->
                IF ff["Import"] /\ js_first_import(t, n)
                THEN collect_import_block(t, n, mode, JsImportKinds)
                ELSE <<>>
          [] kind = "formal_parameters" ->
                IF ff["ArgList"] /\ multi_line(t, n)
                THEN <<create_fold(t, n, "ArgList")>>
                ELSE <<>>
          [] kind = "template_string" ->
                IF ff["Literal"] /\ multi_line(t, n)
                THEN <<with_preview(create_fold(t, n, "Literal"),
                                    generated("generate_template_literal_preview", mode))>>
                ELSE <<>>
          [] kind = "string" ->
                IF ff["Literal"] /\ multi_line(t, n)
                THEN <<with_preview(create_fold(t, n, "Literal"),
                                    generated("generate_literal_preview", mode))>>
                ELSE <<>>
          [] kind = "comment" ->
                IF ~ff["Comment"] THEN <<>>
                ELSE IF t[n].text = "/**" /\ ff["DocComment"]
                     THEN IF multi_line(t, n)
                          THEN <<with_preview(create_fold(t, n, "DocComment"),
                                              generated("generate_jsdoc_preview", mode))>>
                          ELSE <<>>
                ELSE IF t[n].text \in {"/*", "/**"}
                     THEN IF multi_line(t, n)
                          THEN <<with_preview(create_fold(t, n, "Comment"),
                                              generated("generate_comment_preview", mode))>>
                          ELSE <<>>
                ELSE <<>>
          [] kind = "array" ->
                IF ff["ArrayLiteral"] /\ multi_line(t, n)
                THEN <<with_preview(create_fold(t, n, "ArrayLiteral"),
                                    generated("generate_array_preview", mode))>>
                ELSE <<>>
          [] kind = "object" ->
                IF ff["ObjectLiteral"] /\ multi_line(t, n)
                THEN <<with_preview(create_fold(t, n, "ObjectLiteral"),
                                    generated("generate_object_preview", mode))>>
                ELSE <<>>
          [] kind = "call_expression" ->
                IF /\ ff["ChainedCall"]
                   /\ (t[n].parent = 0 \/ t[t[n].parent].kind # "member_expression")
                THEN detect_chain(t, n, "call_expression", "member_expression")
                ELSE <<>>
          [] kind \in {"interface_declaration", "type_alias_declaration"} ->
                IF ff["ClassBody"] /\ ot # 0 /\ multi_line(t, ot)
                THEN <<with_preview(create_fold(t, ot, "ClassBody"),
                                    generated("get_type_signature", "any"))>>
                ELSE <<>>
          [] OTHER -> <<>>

\* a traverse_node that does not look below a node it has folded
RECURSIVE js_traverse_node_unless_folded(_, _, _)
js_traverse_node_unless_folded(t, n, cfg) ==
    IF js_node_folds(t, n, cfg) # <<>> THEN js_node_folds(t, n, cfg)
    ELSE Flatten([i \in DOMAIN children(t, n) |->
                     js_traverse_node_unless_folded(t, children(t, n)[i], cfg)])

\* traverse_node: the regions of n, then those of its children in order
RECURSIVE js_traverse_node(_, _, _)
js_traverse_node(t, n, cfg) ==
    js_node_folds(t, n, cfg)
    \o Flatten([i \in DOMAIN children(t, n) |->
                    js_traverse_node(t, children(t, n)[i], cfg)])

js_extract_folds(t, cfg) ==
    SelectSeq(SortByFoldKey(js_traverse_node(t, 1, cfg)),
              LAMBDA f : keep_fold(f, cfg.min_fold_lines))

(***************************************************************************)
(* Extraction runs: the trees handed to the extractors.  Three families:   *)
(* a list of top-level statements (imports, comments, other statements),   *)
(* a list of top-level constructs with bodies (functions, classes,         *)
(* literals, comments), and one expression statement holding a chain of    *)
(* calls and member accesses.  Row r of a file starts at byte 10 * r.      *)
(***************************************************************************)
RootKind(l) == IF l = "Python" THEN "module" ELSE "program"

At(row, col) == 10 * row + col

\* ---- top-level statements ------------------------------------------------
SiblingShapes(l) ==
    IF l = "Python"
    THEN {[kind |-> "import_statement", lines |-> 1, text |-> ""],
          [kind |-> "import_from_statement", lines |-> 1, text |-> ""],
          [kind |-> "import_from_statement", lines |-> 2, text |-> ""],
          [kind |-> "comment", lines |-> 1, text |-> "#"],
          [kind |-> "expression_statement", lines |-> 1, text |-> ""]}
    ELSE {[kind |-> "import_statement", lines |-> 1, text |-> ""],
          [kind |-> "import_statement", lines |-> 2, text |-> ""],
          [kind |-> "comment", lines |-> 1, text |-> "//"],
          [kind |-> "expression_statement", lines |-> 1, text |-> ""]}

\* a statement starts on the row the one before it ends on, or on the next;
\* a line comment ends its row
SiblingLists(l) ==
    UNION {{s \in [1..n -> [shape : SiblingShapes(l), newline : BOOLEAN]] :
                /\ s[1].newline
                /\ \A i \in 2..n : s[i - 1].shape.kind = "comment" => s[i].newline}
           : n \in 1..MaxSiblings}

RECURSIVE SiblingStartRow(_, _)
SiblingStartRow(items, i) ==
    IF i = 1 THEN 0
    ELSE SiblingStartRow(items, i - 1) + items[i - 1].shape.lines - 1
         + (IF items[i].newline THEN 1 ELSE 0)

SiblingEndRow(items, i) == SiblingStartRow(items, i) + items[i].shape.lines - 1

SiblingTree(l, items) ==
    <<Node(RootKind(l), 0, "", 0, At(Len(items), 0), 0, SiblingEndRow(items, Len(items)), "")>>
    \o [i \in 1..Len(items) |->
            Node(items[i].shape.kind, 1, "", At(i - 1, 0), At(i - 1, 8),
                 SiblingStartRow(items, i), SiblingEndRow(items, i), items[i].shape.text)]

\* ---- chains ----------------------------------------------------------------
\* a link is ".m()" (member access, then call), ".p" (member access) or "()"
\* (call); it may start on a new row
ChainLinks == [link : {".m()", ".p", "()"}, newline : BOOLEAN]

ChainLists == UNION {[1..n -> ChainLinks] : n \in 1..MaxLinks}

\* the postfix operations of the links, innermost first
RECURSIVE ChainOps(_)
ChainOps(links) ==
    IF links = <<>> THEN <<>>
    ELSE LET l == Head(links)
         IN  (CASE l.link = ".m()" -> <<[op |-> "member", newline |-> l.newline],
                                        [op |-> "call", newline |-> FALSE]>>
                [] l.link = ".p"   -> <<[op |-> "member", newline |-> l.newline]>>
                [] l.link = "()"   -> <<[op |-> "call", newline |-> l.newline]>>)
             \o ChainOps(Tail(links))

RECURSIVE OpEndRow(_, _)
OpEndRow(ops, i) ==
    IF i = 0 THEN 0 ELSE OpEndRow(ops, i - 1) + (IF ops[i].newline THEN 1 ELSE 0)

OpKind(l, op) ==
    IF l = "Python" THEN (IF op = "call" THEN "call" ELSE "attribute")
    ELSE (IF op = "call" THEN "call_expression" ELSE "member_expression")

OpField(op) == IF op = "call" THEN "function" ELSE "object"

\* node 1 the root, node 2 the expression statement, node 2 + j the j-th
\* operation from the outside, the last node the identifier the chain starts at
ChainTree(l, links) ==
    LET ops == ChainOps(links)
        k   == Len(ops)
        op(j) == ops[k + 1 - j]
    IN  <<Node(RootKind(l), 0, "", 0, 1 + 3 * k, 0, OpEndRow(ops, k), ""),
          Node("expression_statement", 1, "", 0, 1 + 3 * k, 0, OpEndRow(ops, k), "")>>
        \o [j \in 1..k |->
              Node(OpKind(l, op(j).op), 1 + j,
                   IF j = 1 THEN "" ELSE OpField(op(j - 1).op),
                   0, 1 + 3 * (k + 1 - j), 0, OpEndRow(ops, k + 1 - j), "")]
        \o <<Node("identifier", 2 + k, OpField(op(k).op), 0, 1, 0, 0, "")>>

\* ---- constructs with bodies ------------------------------------------------
\* Argument lists of calls and property names of member accesses are leaves
\* of kinds no arm of either traverse_node matches; the chains leave them out.
BlockShapes(l) ==
    IF l = "Python"
    THEN {"function", "function_params2", "class", "list", "comment"}
    ELSE {"function", "arrow", "arrow_expression", "class", "array", "comment",
          "interface"}

BlockItems(l) == [shape : BlockShapes(l), lines : 1..MaxBodyLines]

BlockLists(l) == UNION {[1..n -> BlockItems(l)] : n \in 0..MaxItems}

\* the rows an item takes
ItemRows(l, item) ==
    IF l = "Python"
    THEN CASE item.shape \in {"function", "class"} -> item.lines + 1
           [] item.shape = "function_params2" -> item.lines + 2
           [] OTHER -> item.lines
    ELSE item.lines

\* the nodes of an item whose first node has id `id` and starts on row `r`;
\* L is the line count of the body (of the literal, of the comment)
PyItemNodes(item, id, r) ==
    LET L == item.lines
    IN  CASE item.shape = "function" ->
               <<Node("function_definition", 1, "", At(r, 0), At(r + L, 8), r, r + L, ""),
                 Node("parameters", id, "parameters", At(r, 5), At(r, 7), r, r, ""),
                 Node("block", id, "body", At(r + 1, 2), At(r + L, 8), r + 1, r + L, "")>>
          [] item.shape = "function_params2" ->
               <<Node("function_definition", 1, "", At(r, 0), At(r + L + 1, 8), r, r + L + 1, ""),
                 Node("parameters", id, "parameters", At(r, 5), At(r + 1, 3), r, r + 1, ""),
                 Node("block", id, "body", At(r + 2, 2), At(r + L + 1, 8), r + 2, r + L + 1, "")>>
          [] item.shape = "class" ->
               <<Node("class_definition", 1, "", At(r, 0), At(r + L, 8), r, r + L, ""),
                 Node("block", id, "body", At(r + 1, 2), At(r + L, 8), r + 1, r + L, "")>>
               \o (IF L >= 2
                   THEN <<Node("function_definition", id + 1, "", At(r + 1, 2), At(r + L, 8),
                               r + 1, r + L, ""),
                          Node("parameters", id + 2, "parameters", At(r + 1, 7), At(r + 1, 9),
                               r + 1, r + 1, ""),
                          Node("block", id + 2, "body", At(r + 2, 4), At(r + L, 8),
                               r + 2, r + L, "")>>
                   ELSE <<Node("pass_statement", id + 1, "", At(r + 1, 2), At(r + 1, 8),
                               r + 1, r + 1, "")>>)
          [] item.shape = "list" ->
               <<Node("expression_statement", 1, "", At(r, 0), At(r + L - 1, 8), r, r + L - 1, ""),
                 Node("list", id, "", At(r, 0), At(r + L - 1, 8), r, r + L - 1, "")>>
          [] item.shape = "comment" ->
               <<Node("comment", 1, "", At(r, 0), At(r + L - 1, 8), r, r + L - 1, "#")>>

JsItemNodes(item, id, r) ==
    LET L == item.lines
        e == r + L - 1
    IN  CASE item.shape = "function" ->
               <<Node("function_declaration", 1, "", At(r, 0), At(e, 8), r, e, ""),
                 Node("formal_parameters", id, "parameters", At(r, 3), At(r, 5), r, r, ""),
                 Node("statement_block", id, "body", At(r, 6), At(e, 8), r, e, "")>>
          [] item.shape = "arrow" ->
               <<Node("expression_statement", 1, "", At(r, 0), At(e, 8), r, e, ""),
                 Node("arrow_function", id, "", At(r, 0), At(e, 8), r, e, ""),
                 Node("formal_parameters", id + 1, "parameters", At(r, 0), At(r, 2), r, r, ""),
                 Node("statement_block", id + 1, "body", At(r, 6), At(e, 8), r, e, "")>>
          [] item.shape = "arrow_expression" ->
               <<Node("expression_statement", 1, "", At(r, 0), At(e, 8), r, e, ""),
                 Node("arrow_function", id, "", At(r, 0), At(e, 8), r, e, ""),
                 Node("formal_parameters", id + 1, "parameters", At(r, 0), At(r, 2), r, r, ""),
                 Node("binary_expression", id + 1, "body", At(r, 6), At(e, 8), r, e, "")>>
          [] item.shape = "class" ->
               <<Node("class_declaration", 1, "", At(r, 0), At(e, 8), r, e, ""),
                 Node("class_body", id, "body", At(r, 6), At(e, 8), r, e, "")>>
               \o (IF L >= 3
                   THEN <<Node("method_definition", id + 1, "", At(r + 1, 2), At(e - 1, 8),
                               r + 1, e - 1, ""),
                          Node("formal_parameters", id + 2, "parameters", At(r + 1, 3),
                               At(r + 1, 5), r + 1, r + 1, ""),
                          Node("statement_block", id + 2, "body", At(r + 1, 6), At(e - 1, 8),
                               r + 1, e - 1, "")>>
                   ELSE <<>>)
          [] item.shape = "array" ->
               <<Node("expression_statement", 1, "", At(r, 0), At(e, 8), r, e, ""),
                 Node("array", id, "", At(r, 0), At(e, 8), r, e, "")>>
          [] item.shape = "comment" ->
               <<Node("comment", 1, "", At(r, 0), At(e, 8), r, e, "/*")>>
          [] item.shape = "interface" ->
               <<Node("interface_declaration", 1, "", At(r, 0), At(e, 8), r, e, ""),
                 Node("object_type", id, "", At(r, 6), At(e, 8), r, e, "")>>

ItemNodes(l, item, id, r) ==
    IF l = "Python" THEN PyItemNodes(item, id, r) ELSE JsItemNodes(item, id, r)

\* the nodes of the items from the i-th on, the i-th starting at id and row r
RECURSIVE BlockNodes(_, _, _, _, _)
BlockNodes(l, items, i, id, r) ==
    IF i > Len(items) THEN <<>>
    ELSE LET ns == ItemNodes(l, items[i], id, r)
         IN  ns \o BlockNodes(l, items, i + 1, id + Len(ns), r + ItemRows(l, items[i]))

RECURSIVE TotalRows(_, _, _)
TotalRows(l, items, i) ==
    IF i > Len(items) THEN 0 ELSE ItemRows(l, items[i]) + TotalRows(l, items, i + 1)

BlockTree(l, items) ==
    <<Node(RootKind(l), 0, "", 0, At(TotalRows(l, items, 1), 0), 0,
           TotalRows(l, items, 1), "")>>
    \o BlockNodes(l, items, 1, 2, 0)

(***************************************************************************)
(* Extraction runs.                                                        *)
(***************************************************************************)
Languages == {"Python", "JavaScript"}

ScanConfig(filter, min_fold_lines, preview_mode) ==
    [fold_filter |-> filter, min_fold_lines |-> min_fold_lines,
     preview_mode |-> preview_mode]

Without(fold_type) == [FoldFilter_all EXCEPT ![fold_type] = FALSE]

ImportRuns ==
    /\ lang \in Languages
    /\ tree \in {SiblingTree(lang, s) : s \in SiblingLists(lang)}
    /\ config \in {ScanConfig(f, 2, "Flow") : f \in {FoldFilter_all, Without("Import")}}

ChainRuns ==
    /\ lang \in Languages
    /\ tree \in {ChainTree(lang, c) : c \in ChainLists}
    /\ config \in {ScanConfig(f, 2, m) :
                      f \in {FoldFilter_all, FoldFilter_default_set}, m \in PreviewMode}

BlockRuns ==
    /\ lang \in Languages
    /\ tree \in {BlockTree(lang, b) : b \in BlockLists(lang)}
    /\ config \in {ScanConfig(f, m, "Flow") :
                      f \in {FoldFilter_all, FoldFilter_default_set}, m \in 1..MaxBodyLines}

ExtractInit ==
    /\ pc = "ready"
    /\ (ImportRuns \/ ChainRuns \/ BlockRuns)
    /\ source = <<>>
    /\ folds = <<>>
    /\ active = <<>>
    /\ output = <<>>
    /\ replaced = <<>>
    /\ preview_text = None
    /\ scan = NoScan
    /\ rendered_file = None

\* PythonParser::parse
ParsePython ==
    /\ pc = "ready"
    /\ lang = "Python"
    /\ folds' = py_extract_folds(tree, config)
    /\ pc' = "extracted"
    /\ UNCHANGED <<source, config, active, output, replaced, tree, lang, preview_text, scan, rendered_file>>

\* JavaScriptParser::parse (JavaScript and TypeScript)
ParseJavaScript ==
    /\ pc = "ready"
    /\ lang = "JavaScript"
    /\ folds' = js_extract_folds(tree, config)
    /\ pc' = "extracted"
    /\ UNCHANGED <<source, config, active, output, replaced, tree, lang, preview_text, scan, rendered_file>>

ExtractNext == ParsePython \/ ParseJavaScript

SpecExtract == ExtractInit /\ [][ExtractNext]_vars

(***************************************************************************)
(* parsers/python.rs and parsers/javascript.rs: the preview generators.    *)
(* A string is a sequence of characters.  A piece that a format string or  *)
(* a literal contributes (" -> ", "if", ", +", a number) is kept as one    *)
(* element; the text of the source is kept character by character, "\n"    *)
(* the line feed.  When a preview generator runs, `source` is the text of  *)
(* the file, one byte per character.                                       *)
(***************************************************************************)
\* source[node.byte_range()]
get_node_text(src, t, n) == SubSeq(src, t[n].start_byte + 1, t[n].end_byte)

\* str::find(c): the index of the first c, 0 when there is none
find(text, c) ==
    LET at == {i \in DOMAIN text : text[i] = c}
    IN  IF at = {} THEN 0 ELSE CHOOSE i \in at : \A j \in at : i <= j

Whitespace == {" ", "\n"}

RECURSIVE trim_start(_)
trim_start(text) ==
    IF text # <<>> /\ Head(text) \in Whitespace THEN trim_start(Tail(text)) ELSE text

RECURSIVE trim_end(_)
trim_end(text) ==
    IF text # <<>> /\ text[Len(text)] \in Whitespace
    THEN trim_end(SubSeq(text, 1, Len(text) - 1)) ELSE text

trim(text) == trim_end(trim_start(text))

\* str::lines(): the lines of a text, a final line feed opening no line
RECURSIVE lines(_)
lines(text) ==
    IF text = <<>> THEN <<>>
    ELSE LET nl == find(text, "\n")
         IN  IF nl = 0 THEN <<text>>
             ELSE <<SubSeq(text, 1, nl - 1)>> \o lines(SubSeq(text, nl + 1, Len(text)))

\* Iterator::take(k)
take(s, k) == SubSeq(s, 1, IF Len(s) < k THEN Len(s) ELSE k)

\* [String]::join(sep)
RECURSIVE join(_, _)
join(strings, sep) ==
    IF strings = <<>> THEN <<>>
    ELSE IF Len(strings) = 1 THEN strings[1]
    ELSE strings[1] \o <<sep>> \o join(Tail(strings), sep)

\* text.lines().next().unwrap_or("")
first_line(text) == IF lines(text) = <<>> THEN <<>> ELSE lines(text)[1]

\* PythonParser::get_function_signature: the text from the start of the node
\* to the first ':' of the rest of the file
py_get_function_signature(src, t, n) ==
    LET text == SubSeq(src, t[n].start_byte + 1, Len(src))
        colon_pos == find(text, ":")
    IN  IF colon_pos # 0 THEN trim(SubSeq(text, 1, colon_pos - 1))
        ELSE first_line(get_node_text(src, t, n))

\* JavaScriptParser::get_function_signature: the text of the node up to its
\* first '{'
js_get_function_signature(src, t, n) ==
    LET text == get_node_text(src, t, n)
        brace_pos == find(text, "{")
    IN  IF brace_pos # 0 THEN trim(SubSeq(text, 1, brace_pos - 1))
        ELSE first_line(text)

\* flow.retain(|item| seen.insert(item.clone())): the first occurrence of
\* each item, in order
RECURSIVE retain_unseen(_, _)
retain_unseen(flow, seen) ==
    IF flow = <<>> THEN <<>>
    ELSE IF Head(flow) \in seen THEN retain_unseen(Tail(flow), seen)
    ELSE <<Head(flow)>> \o retain_unseen(Tail(flow), seen \cup {Head(flow)})

\* the keyword the match of collect_control_flow_recursive pushes for a kind
py_flow_keyword(kind) ==
    CASE kind = "if_statement"     -> <<"if">>
      [] kind = "for_statement"    -> <<"for">>
      [] kind = "while_statement"  -> <<"while">>
      [] kind = "try_statement"    -> <<"try">>
      [] kind = "with_statement"   -> <<"with">>
      [] kind = "match_statement"  -> <<"match">>
      [] kind = "return_statement" -> <<"return">>
      [] kind = "yield"            -> <<"yield">>
      [] kind = "raise_statement"  -> <<"raise">>
      [] kind = "assert_statement" -> <<"assert">>
      [] kind = "await"            -> <<"await">>
      [] OTHER -> <<>>

js_flow_keyword(kind) ==
    CASE kind = "if_statement"                           -> <<"if">>
      [] kind \in {"for_statement", "for_in_statement"}  -> <<"for">>
      [] kind \in {"while_statement", "do_statement"}    -> <<"while">>
      [] kind = "try_statement"                          -> <<"try">>
      [] kind = "switch_statement"                       -> <<"switch">>
      [] kind = "return_statement"                       -> <<"return">>
      [] kind = "throw_statement"                        -> <<"throw">>
      [] kind = "yield_expression"                       -> <<"yield">>
      [] kind = "await_expression"                       -> <<"await">>
      [] OTHER -> <<>>

\* the kinds collect_control_flow_recursive does not recurse into
PyFlowStopKinds == {"function_definition", "async_function_definition", "class_definition"}

JsFlowStopKinds ==
    {"function_declaration", "function", "arrow_function", "method_definition",
     "class_declaration", "class"}

RECURSIVE py_collect_control_flow_recursive(_, _)
py_collect_control_flow_recursive(t, n) ==
    py_flow_keyword(t[n].kind)
    \o (IF t[n].kind \notin PyFlowStopKinds
        THEN Flatten([i \in DOMAIN children(t, n) |->
                         py_collect_control_flow_recursive(t, children(t, n)[i])])
        ELSE <<>>)

RECURSIVE js_collect_control_flow_recursive(_, _)
js_collect_control_flow_recursive(t, n) ==
    js_flow_keyword(t[n].kind)
    \o (IF t[n].kind \notin JsFlowStopKinds
        THEN Flatten([i \in DOMAIN children(t, n) |->
                         js_collect_control_flow_recursive(t, children(t, n)[i])])
        ELSE <<>>)

\* an extract_control_flow that keeps every occurrence
extract_control_flow_all(l, t, body) ==
    IF l = "Python" THEN py_collect_control_flow_recursive(t, body)
    ELSE js_collect_control_flow_recursive(t, body)

\* extract_control_flow of either parser
extract_control_flow(l, t, body) ==
    retain_unseen(IF l = "Python" THEN py_collect_control_flow_recursive(t, body)
                  ELSE js_collect_control_flow_recursive(t, body), {})

SourcePreviewLines == 2
SourcePreviewChars == 80

\* PythonParser::generate_function_preview
py_generate_function_preview(src, t, n, body, mode) ==
    LET signature == py_get_function_signature(src, t, n)
    IN  CASE mode \in {"Minimal", "Names"} -> signature
          [] mode = "Flow" ->
                LET flow == extract_control_flow("Python", t, body)
                IN  IF flow = <<>> THEN signature
                    ELSE signature \o <<" -> ">> \o join([i \in DOMAIN flow |-> <<flow[i]>>], "/")
          [] mode = "Source" ->
                take(join(take(lines(get_node_text(src, t, n)), SourcePreviewLines), " "),
                     SourcePreviewChars)

\* JavaScriptParser::generate_function_preview
js_generate_function_preview(src, t, n, body, mode) ==
    LET signature == js_get_function_signature(src, t, n)
    IN  CASE mode \in {"Minimal", "Names"} -> signature
          [] mode = "Flow" ->
                LET flow == extract_control_flow("JavaScript", t, body)
                IN  IF flow = <<>> THEN signature
                    ELSE signature \o <<" -> ">> \o join([i \in DOMAIN flow |-> <<flow[i]>>], "/")
          [] mode = "Source" -> get_node_text(src, t, n)

\* str::starts_with
starts_with(text, prefix) ==
    Len(prefix) <= Len(text) /\ SubSeq(text, 1, Len(prefix)) = prefix

\* str::contains
str_contains(text, pat) ==
    \E i \in 0..(Len(text) - Len(pat)) : SubSeq(text, i + 1, i + Len(pat)) = pat

\* str::trim_matches(c)
RECURSIVE trim_matches(_, _)
trim_matches(text, c) ==
    IF text # <<>> /\ Head(text) = c THEN trim_matches(Tail(text), c)
    ELSE IF text # <<>> /\ text[Len(text)] = c
         THEN trim_matches(SubSeq(text, 1, Len(text) - 1), c)
    ELSE text

\* a Vec built by running step over the items of a sequence, in order
RECURSIVE fold_left(_, _, _)
fold_left(step(_, _), acc, items) ==
    IF items = <<>> THEN acc ELSE fold_left(step, step(acc, Head(items)), Tail(items))

\* the statement the "move to next import" loop of collect_import_modules
\* reaches from sibling `next`, 0 when the run ends
RECURSIVE next_import(_, _, _)
next_import(t, next, import_kinds) ==
    IF next = 0 THEN 0
    ELSE IF t[next].kind \in import_kinds THEN next
    ELSE IF t[next].kind = "comment" THEN next_import(t, next_sibling(t, next), import_kinds)
    ELSE 0

\* the leading "." children of an import_from_statement
RECURSIVE py_dot_count(_, _)
py_dot_count(t, kids) ==
    IF kids = <<>> THEN 0
    ELSE IF t[Head(kids)].kind = "." THEN 1 + py_dot_count(t, Tail(kids))
    ELSE IF t[Head(kids)].kind \notin {"import", "from"} THEN 0
    ELSE py_dot_count(t, Tail(kids))

\* what one statement of the run adds to `modules`
py_import_names(src, t, node, modules) ==
    IF t[node].kind = "import_statement"
    THEN fold_left(LAMBDA ms, child :
                      IF t[child].kind = "dotted_name"
                      THEN Append(ms, get_node_text(src, t, child))
                      ELSE IF /\ t[child].kind = "aliased_import"
                              /\ child_by_field_name(t, child, "name") # 0
                           THEN Append(ms, get_node_text(src, t,
                                               child_by_field_name(t, child, "name")))
                      ELSE ms,
                   modules, children(t, node))
    ELSE IF t[node].kind = "import_from_statement"
    THEN LET module == child_by_field_name(t, node, "module_name")
             named  == IF module # 0 THEN get_node_text(src, t, module) ELSE <<>>
             dots   == [i \in 1..py_dot_count(t, children(t, node)) |-> "."]
             module_prefix == dots \o named
             with(ms, name) ==
                 IF module_prefix = <<>> THEN Append(ms, name)
                 ELSE Append(ms, module_prefix \o <<".">> \o name)
             pushed ==
                 fold_left(LAMBDA ms, child :
                              IF t[child].kind = "dotted_name" /\ child # module
                              THEN with(ms, get_node_text(src, t, child))
                              ELSE IF /\ t[child].kind = "aliased_import"
                                      /\ child_by_field_name(t, child, "name") # 0
                                   THEN with(ms, get_node_text(src, t,
                                                     child_by_field_name(t, child, "name")))
                              ELSE ms,
                           modules, children(t, node))
         IN  IF /\ \/ pushed = <<>>
                   \/ ~str_contains(pushed[Len(pushed)], module_prefix)
                /\ module_prefix # <<>>
                /\ ~\E i \in DOMAIN pushed : starts_with(pushed[i], module_prefix)
             THEN Append(pushed, module_prefix)
             ELSE pushed
    ELSE modules

\* the loop of PythonParser::collect_import_modules from statement `current`
RECURSIVE py_collect_from(_, _, _, _)
py_collect_from(src, t, current, modules) ==
    IF current = 0 THEN modules
    ELSE py_collect_from(src, t,
                         next_import(t, next_sibling(t, current), PyImportKinds),
                         py_import_names(src, t, current, modules))

py_collect_import_modules(src, t, start_node) == py_collect_from(src, t, start_node, <<>>)

\* the names an import_clause brings in
js_clause_imports(src, t, clause) ==
    fold_left(LAMBDA imps, cc :
                 IF t[cc].kind = "identifier" THEN Append(imps, get_node_text(src, t, cc))
                 ELSE IF t[cc].kind = "named_imports"
                      THEN fold_left(LAMBDA is, named :
                                        IF /\ t[named].kind = "import_specifier"
                                           /\ child_by_field_name(t, named, "name") # 0
                                        THEN Append(is, get_node_text(src, t,
                                                 child_by_field_name(t, named, "name")))
                                        ELSE is,
                                     imps, children(t, cc))
                 ELSE IF t[cc].kind = "namespace_import" THEN Append(imps, <<"*">>)
                 ELSE imps,
              <<>>, children(t, clause))

\* what one import_statement of the run adds to `modules`
js_import_names(src, t, node, modules) ==
    LET st == fold_left(LAMBDA acc, child :
                           IF t[child].kind = "string"
                           THEN [acc EXCEPT !.source_node =
                                    Some(trim_matches(trim_matches(
                                             get_node_text(src, t, child), "\""), "'"))]
                           ELSE IF t[child].kind = "import_clause"
                                THEN [acc EXCEPT !.imports =
                                         acc.imports \o js_clause_imports(src, t, child)]
                           ELSE acc,
                        [source_node |-> None, imports |-> <<>>], children(t, node))
    IN  IF ~st.source_node.some THEN modules
        ELSE IF st.imports = <<>> THEN Append(modules, st.source_node.val)
        ELSE modules \o [i \in DOMAIN st.imports |->
                            st.source_node.val \o <<".">> \o st.imports[i]]

\* the loop of JavaScriptParser::collect_import_modules from statement `current`
RECURSIVE js_collect_from(_, _, _, _)
js_collect_from(src, t, current, modules) ==
    IF current = 0 THEN modules
    ELSE js_collect_from(src, t,
                         next_import(t, next_sibling(t, current), JsImportKinds),
                         IF t[current].kind = "import_statement"
                         THEN js_import_names(src, t, current, modules) ELSE modules)

js_collect_import_modules(src, t, start_node) == js_collect_from(src, t, start_node, <<>>)

\* collect_import_modules of either parser
collect_import_modules(l, src, t, start_node) ==
    IF l = "Python" THEN py_collect_import_modules(src, t, start_node)
    ELSE js_collect_import_modules(src, t, start_node)

NamesShownInFull == 5
NamesShownWhenMore == 4
ImportSourceChars == 60
ImportSourceKept == 57
DictSourceChars == 60

\* a name list that is always shown in full
names_preview_in_full(names) == join(names, ", ")

\* the Names rule of the previews: the list in full, or its first entries
\* followed by ", +K more"
names_preview(names) ==
    IF Len(names) <= NamesShownInFull THEN join(names, ", ")
    ELSE join(SubSeq(names, 1, NamesShownWhenMore), ", ")
         \o <<", +", ToString(Len(names) - NamesShownWhenMore), " more">>

\* PythonParser::generate_import_preview
py_generate_import_preview(src, t, start_node, import_count, mode) ==
    CASE mode = "Minimal" -> <<ToString(import_count), " imports">>
      [] mode \in {"Names", "Flow"} ->
            LET modules == py_collect_import_modules(src, t, start_node)
            IN  IF modules = <<>> THEN <<ToString(import_count), " imports">>
                ELSE names_preview(modules)
      [] mode = "Source" ->
            LET line == first_line(get_node_text(src, t, start_node))
            IN  IF Len(line) > ImportSourceChars
                THEN SubSeq(line, 1, ImportSourceKept) \o <<"...">>
                ELSE line

\* JavaScriptParser::get_import_block_source
get_import_block_source(src, t, start_node) ==
    LET w == import_walk(t, next_sibling(t, start_node), start_node, 1, JsImportKinds)
    IN  SubSeq(src, t[start_node].start_byte + 1, t[w.end_node].end_byte)

\* JavaScriptParser::generate_import_preview
js_generate_import_preview(src, t, start_node, import_count, mode) ==
    CASE mode = "Minimal" -> <<ToString(import_count), " imports">>
      [] mode \in {"Names", "Flow"} ->
            LET modules == js_collect_import_modules(src, t, start_node)
            IN  IF modules = <<>> THEN <<ToString(import_count), " imports">>
                ELSE names_preview(modules)
      [] mode = "Source" -> get_import_block_source(src, t, start_node)

\* the key of a pair, its quotes stripped; <<>> when the pair has none
pair_key(src, t, pair) ==
    LET key == child_by_field_name(t, pair, "key")
    IN  IF key = 0 THEN <<>>
        ELSE trim_matches(trim_matches(get_node_text(src, t, key), "\""), "'")

\* PythonParser::extract_dict_keys
extract_dict_keys(src, t, n) ==
    fold_left(LAMBDA keys, child :
                 IF t[child].kind = "pair" /\ pair_key(src, t, child) # <<>>
                 THEN Append(keys, pair_key(src, t, child))
                 ELSE keys,
              <<>>, children(t, n))

\* JavaScriptParser::extract_object_keys
extract_object_keys(src, t, n) ==
    fold_left(LAMBDA keys, child :
                 IF t[child].kind = "pair"
                 THEN IF pair_key(src, t, child) # <<>>
                      THEN Append(keys, pair_key(src, t, child)) ELSE keys
                 ELSE IF t[child].kind = "shorthand_property_identifier"
                      THEN Append(keys, get_node_text(src, t, child))
                 ELSE IF t[child].kind = "method_definition"
                      THEN IF child_by_field_name(t, child, "name") # 0
                           THEN Append(keys, get_node_text(src, t,
                                                 child_by_field_name(t, child, "name")))
                           ELSE keys
                 ELSE IF t[child].kind = "spread_element" THEN Append(keys, <<"...">>)
                 ELSE keys,
              <<>>, children(t, n))

\* the Names branch of generate_dict_preview and generate_object_preview
keys_preview(keys, line_count) ==
    IF keys = <<>> THEN <<"{...} (", ToString(line_count), " lines)">>
    ELSE <<"{ ">> \o names_preview(keys) \o <<" }">>

\* PythonParser::generate_dict_preview
generate_dict_preview(src, t, n, line_count, mode) ==
    CASE mode = "Minimal" -> <<"{...} (", ToString(line_count), " lines)">>
      [] mode \in {"Names", "Flow"} -> keys_preview(extract_dict_keys(src, t, n), line_count)
      [] mode = "Source" ->
            LET text == get_node_text(src, t, n)
            IN  IF Len(text) > DictSourceChars
                THEN take(text, DictSourceChars) \o <<"...">>
                ELSE take(text, DictSourceChars)

\* JavaScriptParser::generate_object_preview
generate_object_preview(src, t, n, line_count, mode) ==
    CASE mode = "Minimal" -> <<"{...} (", ToString(line_count), " lines)">>
      [] mode \in {"Names", "Flow"} -> keys_preview(extract_object_keys(src, t, n), line_count)
      [] mode = "Source" -> get_node_text(src, t, n)

(***************************************************************************)
(* Preview runs: the files handed to the preview generators.               *)
(***************************************************************************)
\* ---- a function whose body is a list of statements -------------------------
\* A statement is a chain of nodes, each the only child of the one before:
\* a control-flow statement, one nested in another, or a function-like or
\* class-like construct holding one.
PyFlowChains ==
    {<<"if_statement">>, <<"for_statement">>, <<"return_statement">>,
     <<"expression_statement">>,
     <<"if_statement", "block", "for_statement">>,
     <<"for_statement", "block", "if_statement">>,
     <<"function_definition", "block", "return_statement">>,
     <<"async_function_definition", "block", "expression_statement", "await">>,
     <<"class_definition", "block", "while_statement">>}

JsFlowChains ==
    {<<"if_statement">>, <<"for_statement">>, <<"return_statement">>,
     <<"expression_statement">>,
     <<"if_statement", "statement_block", "for_statement">>,
     <<"for_statement", "statement_block", "if_statement">>,
     <<"function_declaration", "statement_block", "return_statement">>,
     <<"expression_statement", "function", "statement_block", "return_statement">>,
     <<"expression_statement", "arrow_function", "statement_block", "throw_statement">>,
     <<"expression_statement", "object", "method_definition", "statement_block",
       "return_statement">>,
     <<"generator_function_declaration", "statement_block", "expression_statement",
       "yield_expression">>,
     <<"expression_statement", "generator_function", "statement_block",
       "expression_statement", "yield_expression">>,
     <<"class_declaration", "class_body", "method_definition", "statement_block",
       "while_statement">>,
     <<"expression_statement", "class", "class_body", "method_definition",
       "statement_block", "switch_statement">>}

FlowChains(l) == IF l = "Python" THEN PyFlowChains ELSE JsFlowChains

FlowBodies(l) == UNION {[1..n -> FlowChains(l)] : n \in 0..MaxStmts}

\* the first line of the function, up to and including its line feed
FlowHeader(l) ==
    IF l = "Python" THEN <<"d", "e", "f", " ", "f", "(", ")", ":", "\n">>
    ELSE <<"f", "u", "n", " ", "f", "(", ")", " ", "{", "\n">>

\* a statement takes one line of two characters
FlowSource(l, stmts) ==
    FlowHeader(l) \o Flatten([i \in DOMAIN stmts |-> <<"s", "\n">>])
    \o (IF l = "Python" THEN <<>> ELSE <<"}">>)

\* the nodes of the statements from the i-th on, the i-th starting at id
RECURSIVE FlowNodes(_, _, _, _)
FlowNodes(l, stmts, i, id) ==
    IF i > Len(stmts) THEN <<>>
    ELSE LET chain == stmts[i]
             from  == Len(FlowHeader(l)) + 2 * (i - 1)
         IN  [j \in DOMAIN chain |->
                 Node(chain[j], IF j = 1 THEN 4 ELSE id + j - 2,
                      IF j > 1 /\ chain[j] \in {"block", "statement_block", "class_body"}
                      THEN "body" ELSE "",
                      from, from + 1, i, i, "")]
             \o FlowNodes(l, stmts, i + 1, id + Len(chain))

\* node 1 the root, node 2 the function, node 3 its parameters, node 4 its
\* body, then the statements
FlowTree(l, stmts) ==
    LET src  == FlowSource(l, stmts)
        rows == Len(stmts) + (IF l = "Python" THEN 0 ELSE 1)
        h    == Len(FlowHeader(l))
    IN  <<Node(RootKind(l), 0, "", 0, Len(src), 0, rows, ""),
          Node(IF l = "Python" THEN "function_definition" ELSE "function_declaration",
               1, "", 0, Len(src), 0, rows, ""),
          Node(IF l = "Python" THEN "parameters" ELSE "formal_parameters",
               2, "parameters", 5, 7, 0, 0, ""),
          Node(IF l = "Python" THEN "block" ELSE "statement_block",
               2, "body", IF l = "Python" THEN h ELSE h - 2, Len(src),
               IF l = "Python" THEN 1 ELSE 0, rows, "")>>
        \o FlowNodes(l, stmts, 1, 5)

FlowRuns ==
    /\ lang \in Languages
    /\ \E stmts \in FlowBodies(lang) :
          /\ tree = FlowTree(lang, stmts)
          /\ source = FlowSource(lang, stmts)
    /\ config \in {ScanConfig(FoldFilter_all, 2, m) : m \in {"Minimal", "Flow"}}

\* ---- files written token by token -------------------------------------------
\* A file is a pre-order list of entries.  A token has a text and the white
\* space (pad) that precedes it; an inner node has no text of its own and
\* spans the tokens below it.  depth 0 is the root.
Token(kind, field, depth, pad, text) ==
    [kind |-> kind, field |-> field, depth |-> depth, pad |-> pad, text |-> text]

Inner(kind, field, depth) == Token(kind, field, depth, <<>>, <<>>)

Chars(n, c) == [i \in 1..n |-> c]

EntrySource(entries) == Flatten([i \in DOMAIN entries |-> entries[i].pad \o entries[i].text])

\* the length of the file before each entry, and after the last one
RECURSIVE EntryOffsets(_, _)
EntryOffsets(entries, from) ==
    IF entries = <<>> THEN <<from>>
    ELSE <<from>> \o EntryOffsets(Tail(entries),
                                  from + Len(Head(entries).pad) + Len(Head(entries).text))

RECURSIVE EntryParent(_, _, _)
EntryParent(entries, i, j) ==
    IF j = 0 THEN 0
    ELSE IF entries[j].depth = entries[i].depth - 1 THEN j
    ELSE EntryParent(entries, i, j - 1)

\* the last entry below entry i (i itself when it is a token), scanning from j
RECURSIVE EntryLast(_, _, _)
EntryLast(entries, i, j) ==
    IF j < Len(entries) /\ entries[j + 1].depth > entries[i].depth
    THEN EntryLast(entries, i, j + 1) ELSE j

\* an inner node starts where the first token below it starts
RECURSIVE EntryStart(_, _, _)
EntryStart(entries, offsets, i) ==
    IF entries[i].text # <<>> \/ i = Len(entries) THEN offsets[i] + Len(entries[i].pad)
    ELSE EntryStart(entries, offsets, i + 1)

\* the rows of the offsets of a text: the line feeds before each
RowsOf(src) ==
    [k \in 1..(Len(src) + 1) |-> Cardinality({j \in 1..(k - 1) : src[j] = "\n"})]

\* the leading token of a text, as far as an extractor reads it
LeadingToken(text) ==
    CASE starts_with(text, <<"/", "*", "*">>)   -> "/**"
      [] starts_with(text, <<"/", "*">>)        -> "/*"
      [] starts_with(text, <<"/", "/">>)        -> "//"
      [] starts_with(text, <<"#">>)             -> "#"
      [] starts_with(text, <<"\"", "\"", "\"">>) -> "doc-double"
      [] starts_with(text, <<"'", "'", "'">>)   -> "doc-single"
      [] OTHER -> ""

EntryTree(entries) ==
    LET offsets == EntryOffsets(entries, 0)
        rows    == RowsOf(EntrySource(entries))
    IN  [i \in DOMAIN entries |->
            LET start_byte == EntryStart(entries, offsets, i)
                end_byte   == offsets[EntryLast(entries, i, i) + 1]
            IN  Node(entries[i].kind, EntryParent(entries, i, i - 1), entries[i].field,
                     start_byte, end_byte, rows[start_byte + 1], rows[end_byte + 1],
                     LeadingToken(entries[i].text))]

Word(pad, kind, text) == Token(kind, "", 2, pad, text)

\* items separated by "," tokens at depth d
RECURSIVE CommaSeparated(_, _)
CommaSeparated(items, d) ==
    IF items = <<>> THEN <<>>
    ELSE IF Len(items) = 1 THEN items[1]
    ELSE items[1] \o <<Token(",", "", d, <<>>, <<",">>)>> \o CommaSeparated(Tail(items), d)

\* ---- import runs with their names -------------------------------------------
ImportModules == {"m", "n"}

ImportNames(module, count) ==
    SubSeq(IF module = "m" THEN <<"a", "b", "c">> ELSE <<"d", "e", "f">>, 1, count)

KwImport == <<"i", "m", "p", "o", "r", "t">>
KwFrom == <<"f", "r", "o", "m">>

PyImportForms == {"import", "import_as", "from", "from_star", "comment"}

JsImportForms == {"default", "named", "namespace", "side_effect", "require", "comment"}

ImportForms(l) == IF l = "Python" THEN PyImportForms ELSE JsImportForms

\* the entries of one statement; pad is what separates it from the one before
PyImportEntries(s, pad) ==
    LET ns == ImportNames(s.module, s.count)
    IN  CASE s.form = "import" ->
               <<Inner("import_statement", "", 1), Word(pad, "import", KwImport)>>
               \o CommaSeparated([j \in DOMAIN ns |->
                      <<Token("dotted_name", "name", 2, <<" ">>, <<ns[j]>>)>>], 2)
          [] s.form = "import_as" ->
               <<Inner("import_statement", "", 1), Word(pad, "import", KwImport)>>
               \o CommaSeparated([j \in DOMAIN ns |->
                      <<Inner("aliased_import", "name", 2),
                        Token("dotted_name", "name", 3, <<" ">>, <<ns[j]>>),
                        Token("as", "", 3, <<" ">>, <<"a", "s">>),
                        Token("identifier", "alias", 3, <<" ">>, <<"x">>)>>], 2)
          [] s.form = "from" ->
               <<Inner("import_from_statement", "", 1), Word(pad, "from", KwFrom),
                 Token("dotted_name", "module_name", 2, <<" ">>, <<s.module>>),
                 Word(<<" ">>, "import", KwImport)>>
               \o CommaSeparated([j \in DOMAIN ns |->
                      <<Token("dotted_name", "name", 2, <<" ">>, <<ns[j]>>)>>], 2)
          [] s.form = "from_star" ->
               <<Inner("import_from_statement", "", 1), Word(pad, "from", KwFrom),
                 Token("dotted_name", "module_name", 2, <<" ">>, <<s.module>>),
                 Word(<<" ">>, "import", KwImport),
                 Token("wildcard_import", "", 2, <<" ">>, <<"*">>)>>
          [] s.form = "comment" ->
               <<Token("comment", "", 1, pad, <<"#", "c">>)>>

JsQuoted(module) ==
    IF module = "m" THEN <<"'", module, "'">> ELSE <<"\"", module, "\"">>

JsImportEntries(s, pad) ==
    LET ns == ImportNames(s.module, s.count)
        tail == <<Word(<<" ">>, "from", KwFrom),
                  Token("string", "source", 2, <<" ">>, JsQuoted(s.module))>>
    IN  CASE s.form = "default" ->
               <<Inner("import_statement", "", 1), Word(pad, "import", KwImport),
                 Inner("import_clause", "", 2),
                 Token("identifier", "", 3, <<" ">>, <<ns[1]>>)>> \o tail
          [] s.form = "named" ->
               <<Inner("import_statement", "", 1), Word(pad, "import", KwImport),
                 Inner("import_clause", "", 2), Inner("named_imports", "", 3),
                 Token("{", "", 4, <<" ">>, <<"{">>)>>
               \o CommaSeparated([j \in DOMAIN ns |->
                      <<Inner("import_specifier", "", 4),
                        Token("identifier", "name", 5, <<" ">>, <<ns[j]>>)>>], 4)
               \o <<Token("}", "", 4, <<" ">>, <<"}">>)>> \o tail
          [] s.form = "namespace" ->
               <<Inner("import_statement", "", 1), Word(pad, "import", KwImport),
                 Inner("import_clause", "", 2), Inner("namespace_import", "", 3),
                 Token("*", "", 4, <<" ">>, <<"*">>),
                 Token("as", "", 4, <<" ">>, <<"a", "s">>),
                 Token("identifier", "", 4, <<" ">>, <<"x">>)>> \o tail
          [] s.form = "side_effect" ->
               <<Inner("import_statement", "", 1), Word(pad, "import", KwImport),
                 Token("string", "source", 2, <<" ">>, JsQuoted(s.module))>>
          [] s.form = "require" ->
               <<Inner("import_statement", "", 1), Word(pad, "import", KwImport),
                 Inner("import_require_clause", "", 2),
                 Token("identifier", "", 3, <<" ">>, <<ns[1]>>),
                 Token("=", "", 3, <<" ">>, <<"=">>),
                 Token("require", "", 3, <<" ">>, <<"r", "e", "q">>),
                 Token("(", "", 3, <<>>, <<"(">>),
                 Token("string", "source", 3, <<>>, JsQuoted(s.module)),
                 Token(")", "", 3, <<>>, <<")">>)>>
          [] s.form = "comment" ->
               <<Token("comment", "", 1, pad, <<"/", "/", "c">>)>>

ImportStatements(l) == [form : ImportForms(l), module : ImportModules, count : {2, 3}]

\* runs that start with an import; a form that shows one name, or none, is
\* listed once
ImportLists(l) ==
    UNION {{r \in [1..n -> ImportStatements(l)] :
               /\ r[1].form # "comment"
               /\ \A i \in 1..n :
                     r[i].form \notin {"import", "import_as", "from", "named"}
                        => r[i].count = 2
               /\ \A i \in 1..n : r[i].form = "comment" => r[i].module = "m"}
           : n \in 1..MaxImports}

ImportFile(l, run) ==
    <<Inner(RootKind(l), "", 0)>>
    \o Flatten([i \in DOMAIN run |->
                   IF l = "Python"
                   THEN PyImportEntries(run[i], IF i = 1 THEN <<>> ELSE <<"\n">>)
                   ELSE JsImportEntries(run[i], IF i = 1 THEN <<>> ELSE <<"\n">>)])

NamedImportRuns ==
    /\ lang \in Languages
    /\ \E run \in ImportLists(lang) :
          \E file \in {ImportFile(lang, run)} :
              /\ tree = EntryTree(file)
              /\ source = EntrySource(file)
    /\ config \in {ScanConfig(FoldFilter_all, 2, m) : m \in PreviewMode}

\* ---- dictionary and object literals with their keys -------------------------
\* One entry per line; the i-th key is "k" followed by i.  A pattern says
\* which form the i-th entry takes.
KeyName(i) == <<"k", ToString(i)>>

PyKeyPatterns == {"pairs", "quoted", "mixed", "splats", "set"}

JsKeyPatterns == {"pairs", "quoted", "mixed", "spreads"}

KeyPatterns(l) == IF l = "Python" THEN PyKeyPatterns ELSE JsKeyPatterns

KeyForm(l, pattern, i) ==
    CASE pattern = "pairs"   -> "pair"
      [] pattern = "quoted"  -> IF i % 2 = 1 THEN "pair_single_quoted" ELSE "pair_double_quoted"
      [] pattern = "splats"  -> "splat"
      [] pattern = "spreads" -> "spread"
      [] pattern = "set"     -> "element"
      [] pattern = "mixed"   ->
            IF l = "Python"
            THEN <<"pair", "pair_single_quoted", "splat">>[((i - 1) % 3) + 1]
            ELSE <<"pair", "pair_double_quoted", "shorthand", "method", "spread">>[((i - 1) % 5) + 1]

PairEntries(key_kind, key_text) ==
    <<Inner("pair", "", 3),
      Token(key_kind, "key", 4, <<"\n">>, key_text),
      Token(":", "", 4, <<>>, <<":">>),
      Token("integer", "value", 4, <<" ">>, <<"1">>)>>

KeyEntries(form, i) ==
    CASE form = "pair" -> PairEntries("identifier", KeyName(i))
      [] form = "pair_single_quoted" -> PairEntries("string", <<"'">> \o KeyName(i) \o <<"'">>)
      [] form = "pair_double_quoted" -> PairEntries("string", <<"\"">> \o KeyName(i) \o <<"\"">>)
      [] form = "splat" ->
            <<Inner("dictionary_splat", "", 3),
              Token("**", "", 4, <<"\n">>, <<"*", "*">>),
              Token("identifier", "", 4, <<>>, KeyName(i))>>
      [] form = "element" -> <<Token("identifier", "", 3, <<"\n">>, KeyName(i))>>
      [] form = "shorthand" ->
            <<Token("shorthand_property_identifier", "", 3, <<"\n">>, KeyName(i))>>
      [] form = "method" ->
            <<Inner("method_definition", "", 3),
              Token("property_identifier", "name", 4, <<"\n">>, KeyName(i)),
              Token("formal_parameters", "parameters", 4, <<>>, <<"(", ")">>),
              Token("statement_block", "body", 4, <<" ">>, <<"{", "}">>)>>
      [] form = "spread" ->
            <<Inner("spread_element", "", 3),
              Token("...", "", 4, <<"\n">>, <<".", ".", ".">>),
              Token("identifier", "", 4, <<>>, KeyName(i))>>

\* node 1 the root, node 2 the expression statement, node 3 the literal
KeysFile(l, pattern, count) ==
    <<Inner(RootKind(l), "", 0), Inner("expression_statement", "", 1),
      Inner(IF l = "JavaScript" THEN "object"
            ELSE IF pattern = "set" THEN "set" ELSE "dictionary", "", 2),
      Token("{", "", 3, <<>>, <<"{">>)>>
    \o CommaSeparated([i \in 1..count |-> KeyEntries(KeyForm(l, pattern, i), i)], 3)
    \o <<Token("}", "", 3, <<"\n">>, <<"}">>)>>

KeysRuns ==
    /\ lang \in Languages
    /\ \E pattern \in KeyPatterns(lang), count \in 0..MaxKeys :
          /\ pattern = "set" => count >= 1
          /\ \E file \in {KeysFile(lang, pattern, count)} :
                /\ tree = EntryTree(file)
                /\ source = EntrySource(file)
    /\ config \in {ScanConfig(FoldFilter_all, 2, m) : m \in PreviewMode}

\* ---- a function with lines of several widths --------------------------------
\* The parameter list is p characters wide; each body line is one expression
\* statement of the given width.
SourceWidths == {1, 40, 80}

SourceBodies == UNION {[1..n -> SourceWidths] : n \in 1..MaxSourceLines}

SourceFile(l, p, body) ==
    <<Inner(RootKind(l), "", 0),
      Inner(IF l = "Python" THEN "function_definition" ELSE "function_declaration", "", 1),
      Token(IF l = "Python" THEN "def" ELSE "function", "", 2, <<>>,
            IF l = "Python" THEN <<"d", "e", "f">> ELSE <<"f", "u", "n">>),
      Token("identifier", "name", 2, <<" ">>, <<"f">>),
      Token(IF l = "Python" THEN "parameters" ELSE "formal_parameters", "parameters", 2,
            <<>>, <<"(">> \o Chars(p, "p") \o <<")">>)>>
    \o (IF l = "Python"
        THEN <<Token(":", "", 2, <<>>, <<":">>), Inner("block", "body", 2)>>
        ELSE <<Inner("statement_block", "body", 2), Token("{", "", 3, <<" ">>, <<"{">>)>>)
    \o [i \in DOMAIN body |->
           Token("expression_statement", "", 3, <<"\n", " ">>, Chars(body[i], "s"))]
    \o (IF l = "Python" THEN <<>> ELSE <<Token("}", "", 3, <<"\n">>, <<"}">>)>>)

SourceRuns ==
    /\ lang \in Languages
    /\ \E p \in {0} \cup SourceWidths, body \in SourceBodies :
          \E file \in {SourceFile(lang, p, body)} :
              /\ tree = EntryTree(file)
              /\ source = EntrySource(file)
    /\ config \in {ScanConfig(FoldFilter_all, 2, m) : m \in {"Source", "Minimal"}}

\* ---- a function whose header holds the body delimiter more than once --------
\* The parameter list is plain, carries a type annotation or a dictionary
\* default (Python), or destructures or defaults to an object (JavaScript).
SignatureParams(l) ==
    IF l = "Python"
    THEN {<<"(", "x", ")">>,
          <<"(", "x", ":", "T", ")">>,
          <<"(", "x", "=", "{", "1", ":", "2", "}", ")">>}
    ELSE {<<"(", "x", ")">>,
          <<"(", "{", "x", "}", ")">>,
          <<"(", "x", "=", "{", "}", ")">>}

SignatureFile(l, params) ==
    <<Inner(RootKind(l), "", 0),
      Inner(IF l = "Python" THEN "function_definition" ELSE "function_declaration", "", 1),
      Token(IF l = "Python" THEN "def" ELSE "function", "", 2, <<>>,
            IF l = "Python" THEN <<"d", "e", "f">> ELSE <<"f", "u", "n">>),
      Token("identifier", "name", 2, <<" ">>, <<"f">>),
      Token(IF l = "Python" THEN "parameters" ELSE "formal_parameters", "parameters", 2,
            <<>>, params)>>
    \o (IF l = "Python"
        THEN <<Token(":", "", 2, <<>>, <<":">>), Inner("block", "body", 2)>>
        ELSE <<Inner("statement_block", "body", 2), Token("{", "", 3, <<" ">>, <<"{">>)>>)
    \o <<Token("expression_statement", "", 3, <<"\n", " ">>, <<"s">>)>>
    \o (IF l = "Python" THEN <<>> ELSE <<Token("}", "", 3, <<"\n">>, <<"}">>)>>)

SignatureRuns ==
    /\ lang \in Languages
    /\ \E params \in SignatureParams(lang) :
          \E file \in {SignatureFile(lang, params)} :
              /\ tree = EntryTree(file)
              /\ source = EntrySource(file)
    /\ config = ScanConfig(FoldFilter_all, 2, "Minimal")

PreviewInit ==
    /\ pc = "ready"
    /\ (FlowRuns \/ NamedImportRuns \/ KeysRuns \/ SourceRuns \/ SignatureRuns)
    /\ folds = <<>>
    /\ active = <<>>
    /\ output = <<>>
    /\ replaced = <<>>
    /\ preview_text = None
    /\ scan = NoScan
    /\ rendered_file = None

PyFunctionKinds == {"function_definition", "async_function_definition"}

\* the function arm of PythonParser::traverse_node calling the generator
PyGenerateFunctionPreview ==
    /\ pc = "ready"
    /\ lang = "Python"
    /\ tree[2].kind \in PyFunctionKinds
    /\ child_by_field_name(tree, 2, "body") # 0
    /\ preview_text' = Some(py_generate_function_preview(
                               source, tree, 2, child_by_field_name(tree, 2, "body"),
                               config.preview_mode))
    /\ pc' = "function_preview"
    /\ UNCHANGED <<source, folds, config, active, output, replaced, tree, lang, scan, rendered_file>>

\* the function arm of JavaScriptParser::traverse_node calling the generator
JsGenerateFunctionPreview ==
    /\ pc = "ready"
    /\ lang = "JavaScript"
    /\ tree[2].kind \in JsFunctionKinds
    /\ child_by_field_name(tree, 2, "body") # 0
    /\ tree[child_by_field_name(tree, 2, "body")].kind = "statement_block"
    /\ preview_text' = Some(js_generate_function_preview(
                               source, tree, 2, child_by_field_name(tree, 2, "body"),
                               config.preview_mode))
    /\ pc' = "function_preview"
    /\ UNCHANGED <<source, folds, config, active, output, replaced, tree, lang, scan, rendered_file>>

\* PythonParser::collect_import_block calling the generator for a run of two
\* or more imports
PyGenerateImportPreview ==
    /\ pc = "ready"
    /\ lang = "Python"
    /\ tree[2].kind \in PyImportKinds
    /\ LET w == import_walk(tree, next_sibling(tree, 2), 2, 1, PyImportKinds)
       IN  /\ w.import_count >= 2
           /\ preview_text' = Some(py_generate_import_preview(
                                      source, tree, 2, w.import_count, config.preview_mode))
    /\ pc' = "import_preview"
    /\ UNCHANGED <<source, folds, config, active, output, replaced, tree, lang, scan, rendered_file>>

\* JavaScriptParser::collect_import_block calling the generator
JsGenerateImportPreview ==
    /\ pc = "ready"
    /\ lang = "JavaScript"
    /\ tree[2].kind \in JsImportKinds
    /\ LET w == import_walk(tree, next_sibling(tree, 2), 2, 1, JsImportKinds)
       IN  /\ w.import_count >= 2
           /\ preview_text' = Some(js_generate_import_preview(
                                      source, tree, 2, w.import_count, config.preview_mode))
    /\ pc' = "import_preview"
    /\ UNCHANGED <<source, folds, config, active, output, replaced, tree, lang, scan, rendered_file>>

\* the dictionary arm of PythonParser::traverse_node calling the generator
PyGenerateDictPreview ==
    /\ pc = "ready"
    /\ lang = "Python"
    /\ Len(tree) >= 3
    /\ tree[3].kind \in {"dictionary", "set"}
    /\ multi_line(tree, 3)
    /\ preview_text' = Some(generate_dict_preview(
                               source, tree, 3, create_fold(tree, 3, "ObjectLiteral").line_count,
                               config.preview_mode))
    /\ pc' = "object_preview"
    /\ UNCHANGED <<source, folds, config, active, output, replaced, tree, lang, scan, rendered_file>>

\* the object arm of JavaScriptParser::traverse_node calling the generator
JsGenerateObjectPreview ==
    /\ pc = "ready"
    /\ lang = "JavaScript"
    /\ Len(tree) >= 3
    /\ tree[3].kind = "object"
    /\ multi_line(tree, 3)
    /\ preview_text' = Some(generate_object_preview(
                               source, tree, 3, create_fold(tree, 3, "ObjectLiteral").line_count,
                               config.preview_mode))
    /\ pc' = "object_preview"
    /\ UNCHANGED <<source, folds, config, active, output, replaced, tree, lang, scan, rendered_file>>

PreviewNext ==
    \/ PyGenerateDictPreview
    \/ JsGenerateObjectPreview
    \/ PyGenerateFunctionPreview
    \/ JsGenerateFunctionPreview
    \/ PyGenerateImportPreview
    \/ JsGenerateImportPreview

SpecPreview == PreviewInit /\ [][PreviewNext]_vars

(***************************************************************************)
(* Walk runs: files with constructs nested in one another, comments of     *)
(* every leading token, and error nodes, under policies that switch single *)
(* categories off.                                                         *)
(***************************************************************************)
WalkLeaves(l) ==
    IF l = "Python" THEN {"comment", "docstring", "list", "error"}
    ELSE {"line_comment", "block_comment", "doc_comment", "array", "error"}

WalkContainers == {"function", "class"}

\* a leaf, or a function holding a leaf or nothing, or a class holding a method
\* that holds a leaf or nothing
WalkItems(l) ==
    [shape : WalkLeaves(l), inner : {"none"}]
    \cup [shape : WalkContainers, inner : WalkLeaves(l) \cup {"none"}]

WalkLists(l) == UNION {[1..n -> WalkItems(l)] : n \in 1..MaxWalkItems}

NewLine == <<"\n">>

\* the entries of a leaf at depth d
WalkLeaf(shape, d) ==
    CASE shape = "comment"       -> <<Token("comment", "", d, NewLine, <<"#", "c">>)>>
      [] shape = "line_comment"  -> <<Token("comment", "", d, NewLine, <<"/", "/", "c">>)>>
      [] shape = "block_comment" ->
            <<Token("comment", "", d, NewLine, <<"/", "*", "\n", "*", "/">>)>>
      [] shape = "doc_comment"   ->
            <<Token("comment", "", d, NewLine, <<"/", "*", "*", "\n", "*", "/">>)>>
      [] shape = "docstring"     ->
            <<Inner("expression_statement", "", d),
              Token("string", "", d + 1, NewLine,
                    <<"\"", "\"", "\"", "d", "\n", "\"", "\"", "\"">>)>>
      [] shape \in {"list", "array"} ->
            <<Inner("expression_statement", "", d), Inner(shape, "", d + 1),
              Token("[", "", d + 2, NewLine, <<"[">>),
              Token("integer", "", d + 2, NewLine, <<"1">>),
              Token("]", "", d + 2, NewLine, <<"]">>)>>
      [] shape = "error"         ->
            <<Inner("ERROR", "", d),
              Token("identifier", "", d + 1, NewLine, <<"x">>),
              Token("(", "", d + 1, NewLine, <<"(">>)>>
      [] shape = "none"          -> <<>>

\* a Python function at depth d holding `inner`
PyWalkFunction(inner, d) ==
    <<Inner("function_definition", "", d),
      Token("def", "", d + 1, NewLine, <<"d", "e", "f">>),
      Token("identifier", "name", d + 1, <<" ">>, <<"f">>),
      Token("parameters", "parameters", d + 1, <<>>, <<"(", ")">>),
      Token(":", "", d + 1, <<>>, <<":">>),
      Inner("block", "body", d + 1)>>
    \o WalkLeaf(inner, d + 2)
    \o <<Token("pass_statement", "", d + 2, NewLine, <<"p", "a", "s", "s">>)>>

\* a JavaScript function or method at depth d holding `inner`
JsWalkFunction(kind, inner, d) ==
    <<Inner(kind, "", d)>>
    \o (IF kind = "function_declaration"
        THEN <<Token("function", "", d + 1, NewLine, <<"f", "u", "n">>),
               Token("identifier", "name", d + 1, <<" ">>, <<"f">>)>>
        ELSE <<Token("property_identifier", "name", d + 1, NewLine, <<"f">>)>>)
    \o <<Token("formal_parameters", "parameters", d + 1, <<>>, <<"(", ")">>),
         Inner("statement_block", "body", d + 1),
         Token("{", "", d + 2, <<" ">>, <<"{">>)>>
    \o WalkLeaf(inner, d + 2)
    \o <<Token("}", "", d + 2, NewLine, <<"}">>)>>

WalkEntries(l, item, d) ==
    CASE item.shape = "function" ->
            IF l = "Python" THEN PyWalkFunction(item.inner, d)
            ELSE JsWalkFunction("function_declaration", item.inner, d)
      [] item.shape = "class" ->
            IF l = "Python"
            THEN <<Inner("class_definition", "", d),
                   Token("class", "", d + 1, NewLine, <<"c", "l", "s">>),
                   Token("identifier", "name", d + 1, <<" ">>, <<"C">>),
                   Token(":", "", d + 1, <<>>, <<":">>),
                   Inner("block", "body", d + 1)>>
                 \o PyWalkFunction(item.inner, d + 2)
            ELSE <<Inner("class_declaration", "", d),
                   Token("class", "", d + 1, NewLine, <<"c", "l", "s">>),
                   Token("identifier", "name", d + 1, <<" ">>, <<"C">>),
                   Inner("class_body", "body", d + 1),
                   Token("{", "", d + 2, <<" ">>, <<"{">>)>>
                 \o JsWalkFunction("method_definition", item.inner, d + 2)
                 \o <<Token("}", "", d + 2, NewLine, <<"}">>)>>
      [] OTHER -> WalkLeaf(item.shape, d)

WalkFile(l, items) ==
    <<Inner(RootKind(l), "", 0)>>
    \o Flatten([i \in DOMAIN items |-> WalkEntries(l, items[i], 1)])

\* every category on, one category off, or comments and doc comments both off
WalkFilters ==
    {FoldFilter_all, [FoldFilter_all EXCEPT !["Comment"] = FALSE, !["DocComment"] = FALSE]}
    \cup {Without(x) : x \in FoldType}

WalkRuns ==
    /\ lang \in Languages
    /\ \E items \in WalkLists(lang) :
          \E file \in {WalkFile(lang, items)} :
              /\ tree = EntryTree(file)
              /\ source = EntrySource(file)
    /\ config \in {ScanConfig(f, 2, "Minimal") : f \in WalkFilters}

WalkInit ==
    /\ pc = "ready"
    /\ WalkRuns
    /\ folds = <<>>
    /\ active = <<>>
    /\ output = <<>>
    /\ replaced = <<>>
    /\ preview_text = None
    /\ scan = NoScan
    /\ rendered_file = None

SpecWalk == WalkInit /\ [][ExtractNext]_vars

(***************************************************************************)
(* engine/scanner.rs: FoldScanner::scan.  The discovered files are a list  *)
(* of (content, language); the content of a file is the tree its text      *)
(* parses to, or Unreadable when read_to_string fails.  A worker takes a   *)
(* file and runs parse_file on it step by step: read the text, create the  *)
(* parser, parse.  With threads = 1 one worker takes the files in order;   *)
(* otherwise the workers of the pool take the files in any order.          *)
(***************************************************************************)
\* fs::read_to_string(path): the text, or an io error
Unreadable == [ok |-> FALSE]
Readable(text) == [ok |-> TRUE, text |-> text]

\* create_parser(language): the parser of the language, or its init error
create_parser(language, broken) ==
    IF language \in broken THEN [ok |-> FALSE, err |-> "InitError"]
    ELSE [ok |-> TRUE, parser |-> language]

\* FoldParser::parse of the parser created for a language
parser_parse(parser, content, cfg) ==
    IF parser = "Python" THEN py_extract_folds(content, cfg)
    ELSE js_extract_folds(content, cfg)

SourceFileOf(path, language, fs, parsed, error) ==
    [path |-> path, language |-> language, folds |-> fs, parsed |-> parsed,
     error |-> error]

\* parse_file run from start to end on one file
parse_file(path, file, cfg, broken) ==
    IF ~file.content.ok
    THEN SourceFileOf(path, file.language, <<>>, FALSE, Some("io"))
    ELSE LET p == create_parser(file.language, broken)
         IN  IF ~p.ok THEN SourceFileOf(path, file.language, <<>>, FALSE, Some(p.err))
             ELSE SourceFileOf(path, file.language,
                             parser_parse(p.parser, file.content.text, cfg), TRUE, None)

\* the sequential branch of scan: the files one by one, in order
scan_sequential(source_files, cfg, broken) ==
    [i \in DOMAIN source_files |-> parse_file(i, source_files[i], cfg, broken)]

Idle == [stage |-> "idle", file |-> 0, content |-> <<>>, parser |-> "none"]

\* one text buffer for the whole pool: the text read by the first worker
\* that holds one
worker_content_shared(workers, w) ==
    LET holding == {v \in DOMAIN workers : workers[v].stage \in {"content", "parser"}}
    IN  workers[CHOOSE v \in holding : \A u \in holding : v <= u].content

\* the text buffer a worker parses: its own
worker_content(workers, w) == workers[w].content

(***************************************************************************)
(* Scan runs: a few files of both languages, readable or not, a parser     *)
(* that initialises or not, and a pool of one or more workers.             *)
(***************************************************************************)
\* two imports on two lines (one Import region), or one statement (none)
ScanTexts(l) ==
    LET import == CHOOSE s \in SiblingShapes(l) :
                      s.kind = "import_statement" /\ s.lines = 1
        other  == CHOOSE s \in SiblingShapes(l) : s.kind = "expression_statement"
    IN  {SiblingTree(l, <<[shape |-> import, newline |-> TRUE],
                          [shape |-> import, newline |-> TRUE]>>),
         SiblingTree(l, <<[shape |-> other, newline |-> TRUE]>>)}

ScanFiles ==
    UNION {[content : {Readable(t) : t \in ScanTexts(l)} \cup {Unreadable}, language : {l}] : l \in Languages}

ScanInit ==
    /\ pc = "ready"
    /\ \E source_files \in UNION {[1..n -> ScanFiles] : n \in 0..MaxFiles},
          threads \in 0..MaxThreads,
          pool \in 1..MaxThreads,
          broken \in {{}, {"JavaScript"}} :
          /\ (threads >= 1 => pool = threads)
          /\ scan = [source_files |-> source_files,
                     threads      |-> threads,
                     broken       |-> broken,
                     workers      |-> [w \in 1..pool |-> Idle],
                     taken        |-> {},
                     results      |-> [i \in DOMAIN source_files |-> None],
                     finished     |-> <<>>,
                     files        |-> <<>>]
    /\ config = ScanConfig(FoldFilter_all, 2, "Flow")
    /\ source = <<>>
    /\ folds = <<>>
    /\ active = <<>>
    /\ output = <<>>
    /\ replaced = <<>>
    /\ tree = EmptyTree
    /\ lang = "none"
    /\ preview_text = None
    /\ rendered_file = None

Pending == DOMAIN scan.source_files \ scan.taken

\* a worker takes the next file (threads = 1) or any file not yet taken
TakeFile(w) ==
    /\ pc = "ready"
    /\ scan.workers[w].stage = "idle"
    /\ \E i \in Pending :
          /\ scan.threads = 1 => \A j \in Pending : i <= j
          /\ scan' = [scan EXCEPT !.taken = @ \cup {i},
                                  !.workers[w] = [Idle EXCEPT !.stage = "taken", !.file = i]]
    /\ UNCHANGED <<pc, source, folds, config, active, output, replaced, tree, lang,
                   preview_text, rendered_file>>

\* the result of a worker's file is stored and the worker is free again
Finish(w, source_file) ==
    [scan EXCEPT !.results[scan.workers[w].file] = Some(source_file),
                 !.finished = Append(@, scan.workers[w].file),
                 !.workers[w] = Idle]

\* fs::read_to_string(path)
ReadToString(w) ==
    /\ pc = "ready"
    /\ scan.workers[w].stage = "taken"
    /\ LET i    == scan.workers[w].file
           file == scan.source_files[i]
       IN  scan' = IF ~file.content.ok
                   THEN Finish(w, SourceFileOf(i, file.language, <<>>, FALSE, Some("io")))
                   ELSE [scan EXCEPT !.workers[w].stage = "content",
                                     !.workers[w].content = file.content.text]
    /\ UNCHANGED <<pc, source, folds, config, active, output, replaced, tree, lang,
                   preview_text, rendered_file>>

\* create_parser(language)
CreateParser(w) ==
    /\ pc = "ready"
    /\ scan.workers[w].stage = "content"
    /\ LET i    == scan.workers[w].file
           file == scan.source_files[i]
           p    == create_parser(file.language, scan.broken)
       IN  scan' = IF ~p.ok
                   THEN Finish(w, SourceFileOf(i, file.language, <<>>, FALSE, Some(p.err)))
                   ELSE [scan EXCEPT !.workers[w].stage = "parser",
                                     !.workers[w].parser = p.parser]
    /\ UNCHANGED <<pc, source, folds, config, active, output, replaced, tree, lang,
                   preview_text, rendered_file>>

\* parser.parse(&content, &self.config) and the SourceFile built from it
ParseFolds(w) ==
    /\ pc = "ready"
    /\ scan.workers[w].stage = "parser"
    /\ LET i    == scan.workers[w].file
           file == scan.source_files[i]
       IN  scan' = Finish(w, SourceFileOf(i, file.language,
                                        parser_parse(scan.workers[w].parser,
                                                     worker_content(scan.workers, w),
                                                     config),
                                        TRUE, None))
    /\ UNCHANGED <<pc, source, folds, config, active, output, replaced, tree, lang,
                   preview_text, rendered_file>>

\* collect(): the results in the order of the discovered files
Collect ==
    /\ pc = "ready"
    /\ \A i \in DOMAIN scan.source_files : scan.results[i].some
    /\ scan' = [scan EXCEPT !.files = [i \in DOMAIN scan.source_files |->
                                           scan.results[i].val]]
    /\ pc' = "scanned"
    /\ UNCHANGED <<source, folds, config, active, output, replaced, tree, lang,
                   preview_text, rendered_file>>

ScanNext ==
    \/ \E w \in DOMAIN scan.workers : TakeFile(w)
    \/ \E w \in DOMAIN scan.workers : ReadToString(w)
    \/ \E w \in DOMAIN scan.workers : CreateParser(w)
    \/ \E w \in DOMAIN scan.workers : ParseFolds(w)
    \/ Collect

SpecScan == ScanInit /\ [][ScanNext]_vars

(***************************************************************************)
(* engine/renderer.rs: render_file and render_file_ansi.  The file is read *)
(* and its language has a parser; the text is one byte per character.      *)
(***************************************************************************)
\* the widths in bytes of the characters of a text
Widths(text) == [i \in DOMAIN text |-> 1]

\* usize::saturating_sub
saturating_sub(a, b) == IF a >= b THEN a - b ELSE 0

\* folds.iter().map(|f| f.line_count.saturating_sub(1)).sum()
RECURSIVE SumLinesHidden(_)
SumLinesHidden(fs) ==
    IF fs = <<>> THEN 0
    ELSE saturating_sub(Head(fs).line_count, 1) + SumLinesHidden(Tail(fs))

\* a fold_count that counts the regions render replaced
RenderedFileOfReplaced(fs, r) ==
    [content |-> r.result, fold_count |-> Len(r.replaced),
     lines_hidden |-> SumLinesHidden(r.replaced)]

\* the RenderedFile built from the candidates and the rendered string
RenderedFile(fs, r) ==
    [content |-> r.result, fold_count |-> Len(fs), lines_hidden |-> SumLinesHidden(fs)]

\* render_file
RenderFile ==
    /\ pc = "ready"
    /\ \E fs \in {parser_parse(lang, tree, config)} :
          \E r \in {render(Widths(source), fs, config.fold_filter)} :
              /\ folds' = fs
              /\ active' = IF fs = <<>> THEN <<>> ELSE Resolve(fs)
              /\ output' = r.result
              /\ replaced' = r.replaced
              /\ rendered_file' = Some(RenderedFile(fs, r))
    /\ pc' = "render_file"
    /\ UNCHANGED <<source, config, tree, lang, preview_text, scan>>

\* render_file_ansi
RenderFileAnsi ==
    /\ pc = "ready"
    /\ \E fs \in {parser_parse(lang, tree, config)} :
          \E r \in {render_ansi(Widths(source), fs, config.fold_filter)} :
              /\ folds' = fs
              /\ active' = IF fs = <<>> THEN <<>> ELSE Resolve(fs)
              /\ output' = r.result
              /\ replaced' = r.replaced
              /\ rendered_file' = Some(RenderedFile(fs, r))
    /\ pc' = "render_file_ansi"
    /\ UNCHANGED <<source, config, tree, lang, preview_text, scan>>

RenderFileNext == RenderFile \/ RenderFileAnsi

SpecRenderFile == WalkInit /\ [][RenderFileNext]_vars

(***************************************************************************)
(* Claims about the resolver.                                              *)
(***************************************************************************)
SameRange(a, b) == a.start_byte = b.start_byte /\ a.end_byte = b.end_byte

\* C1: the resolved set holds no two distinct regions a, b with
\* overlaps(a, b), whatever candidates (start_byte <= end_byte, any order,
\* partial overlaps included) were supplied.
C1_NoOverlap ==
    pc = "resolved" =>
        \A i, j \in DOMAIN active : i # j => ~overlaps(active[i], active[j])

\* C2: a candidate B contained in a candidate A of another byte range is
\* never in the resolved set, and every candidate whose range is contained in
\* no other candidate's range is represented in the resolved set by a region
\* of exactly its byte range.
C2_OutermostWins ==
    pc = "resolved" =>
        /\ \A a, b \in DOMAIN folds :
              (contains(folds[a], folds[b]) /\ ~SameRange(folds[a], folds[b]))
                  => ~\E k \in DOMAIN active : SameRange(active[k], folds[b])
        /\ \A i \in DOMAIN folds :
              (~\E j \in DOMAIN folds :
                    contains(folds[j], folds[i]) /\ ~SameRange(folds[j], folds[i]))
                  => \E k \in DOMAIN active : SameRange(active[k], folds[i])

\* a run where an inner candidate was supplied before its outer one, next to
\* a candidate that overlaps neither
C2_Witness ==
    /\ pc = "resolved"
    /\ Len(folds) = 3
    /\ contains(folds[2], folds[1]) /\ ~SameRange(folds[2], folds[1])
    /\ ~overlaps(folds[3], folds[2])
    /\ Len(active) = 2

\* C3: the resolver's output is in ascending start_byte order, for every
\* candidate list and every order of supply.
C3_SortedByStart ==
    pc = "resolved" =>
        \A i, j \in DOMAIN active :
            i < j => active[i].start_byte <= active[j].start_byte

\* a run whose candidates were supplied in descending start order and were
\* all accepted
C3_Witness ==
    /\ pc = "resolved"
    /\ Len(folds) = 3
    /\ folds[1].start_byte > folds[2].start_byte
    /\ folds[2].start_byte > folds[3].start_byte
    /\ Len(active) = 3

(***************************************************************************)
(* Claims about rendering.                                                 *)
(***************************************************************************)
Rendered == pc \in {"render", "render_ansi"}

\* the bytes of the text from offset a up to, not including, offset b
ByteSlice(a, b) == [i \in 1..(b - a) |-> [byte |-> a + i - 1]]

IsByte(tok) == "byte" \in DOMAIN tok

\* the rendered string with every placeholder replaced by one mark
Shape(out) == [i \in DOMAIN out |-> IF IsByte(out[i]) THEN out[i] ELSE "placeholder"]

\* slices and placeholders in order: text[from .. r1.start], placeholder,
\* text[r1.end .. r2.start], placeholder, ..., text[rn.end ..]
RECURSIVE SlicesAndPlaceholders(_, _)
SlicesAndPlaceholders(from, regions) ==
    IF regions = <<>> THEN ByteSlice(from, len_bytes(source))
    ELSE ByteSlice(from, Head(regions).start_byte) \o <<"placeholder">>
         \o SlicesAndPlaceholders(Head(regions).end_byte, Tail(regions))

\* the offsets of the characters of the text, and its end
CharBoundaries == {SumWidths(source, c) : c \in 0..Len(source)}

OnCharBoundaries ==
    \A i \in DOMAIN folds :
        folds[i].start_byte \in CharBoundaries /\ folds[i].end_byte \in CharBoundaries

OutsideFolded ==
    {p \in 0..(len_bytes(source) - 1) :
        \A i \in DOMAIN replaced :
            ~(replaced[i].start_byte <= p /\ p < replaced[i].end_byte)}

BytePreserved ==
    /\ Shape(output) = SlicesAndPlaceholders(0, replaced)
    /\ {output[i].byte : i \in {k \in DOMAIN output : IsByte(output[k])}} = OutsideFolded
    /\ \A i, j \in DOMAIN output :
          (i < j /\ IsByte(output[i]) /\ IsByte(output[j])) => output[i].byte < output[j].byte

\* C4: rendering with an empty region list returns the text unchanged, for
\* every text and policy, plain and styled.
C4_IdentityRendering ==
    (Rendered /\ folds = <<>>) => output = ByteSlice(0, len_bytes(source))

\* both variants of an empty-list render of a text with a two-byte character
C4_Witness ==
    /\ Rendered
    /\ folds = <<>>
    /\ \E c \in DOMAIN source : source[c] = 2
    /\ ~config.fold_filter["Block"]

\* C5 as stated: for every text and every candidate list inside the text,
\* the output of render is the slices of text around the folded regions, byte
\* for byte, with a placeholder in the place of each folded region.
C5_BytePreservation == pc = "render" => BytePreserved

\* C5 as amended: the same, for candidate lists whose start_byte and end_byte
\* all fall on character boundaries of the text.
C5_BytePreservationOnCharBoundaries ==
    (pc = "render" /\ OnCharBoundaries) => BytePreserved

\* a text that starts with a two-byte character, kept whole in front of a
\* folded region; a second candidate was supplied and not folded
C5_Witness ==
    /\ pc = "render"
    /\ OnCharBoundaries
    /\ source = <<2, 1>>
    /\ Len(folds) = 2
    /\ Len(replaced) = 1
    /\ replaced[1].start_byte = 2 /\ replaced[1].end_byte = 3
    /\ Len(output) = 3

\* the sub-list of the candidates whose category the policy enables
EnabledSubList(fs, filter) == SelectSeq(fs, LAMBDA f : should_fold(filter, f.fold_type))

\* C6: rendering a candidate list under a policy gives the same output as
\* rendering, with every category enabled, the sub-list of the candidates
\* whose categories the policy enables.
C6_PolicyRecheck ==
    pc = "render" =>
        output = render(source, EnabledSubList(folds, config.fold_filter),
                        FoldFilter_all).result

(***************************************************************************)
(* Claims about extraction.                                                *)
(***************************************************************************)
Extracted == pc = "extracted"

Nodes == 1..Len(tree)

\* the candidates pushed by the walk, before extract_folds filters them
Candidates(cfg) ==
    IF lang = "Python" THEN py_traverse_node(tree, 1, cfg) ELSE js_traverse_node(tree, 1, cfg)

Returned(cfg) ==
    IF lang = "Python" THEN py_extract_folds(tree, cfg) ELSE js_extract_folds(tree, cfg)

InSeq(x, s) == \E i \in DOMAIN s : s[i] = x

Lines(n) == tree[n].end_row - tree[n].start_row + 1

RegionsAt(n, fold_type) ==
    {i \in DOMAIN folds :
        /\ folds[i].fold_type = fold_type
        /\ folds[i].start_byte = tree[n].start_byte
        /\ folds[i].end_byte = tree[n].end_byte}

\* the body of a function-like construct, 0 when n is none or has no block body
FunctionBody(n) ==
    LET body == child_by_field_name(tree, n, "body")
    IN  IF lang = "Python"
        THEN IF tree[n].kind \in {"function_definition", "async_function_definition"}
             THEN body ELSE 0
        ELSE IF tree[n].kind \in {"function_declaration", "function", "arrow_function",
                                  "method_definition", "generator_function_declaration",
                                  "generator_function"}
                /\ body # 0 /\ tree[body].kind = "statement_block"
             THEN body ELSE 0

\* the body of a class, 0 when n is none
ClassBodyOf(n) ==
    IF tree[n].kind \in (IF lang = "Python" THEN {"class_definition"}
                         ELSE {"class_declaration", "class"})
    THEN child_by_field_name(tree, n, "body") ELSE 0

ImportKinds == IF lang = "Python" THEN PyImportKinds ELSE JsImportKinds

IsImport(n) == tree[n].kind \in ImportKinds

Siblings(n, m) == tree[n].parent = tree[m].parent /\ tree[n].parent # 0

\* the siblings strictly between n and m
Between(n, m) == {k \in Nodes : Siblings(k, n) /\ ((n < k /\ k < m) \/ (m < k /\ k < n))}

\* two imports of one run: only imports and comments stand between them
SameRun(n, m) ==
    /\ IsImport(n) /\ IsImport(m) /\ Siblings(n, m)
    /\ \A k \in Between(n, m) : IsImport(k) \/ tree[k].kind = "comment"

RunOf(n) == {m \in Nodes : m = n \/ SameRun(n, m)}

FirstOf(run) == CHOOSE n \in run : \A m \in run : n <= m

LastOf(run) == CHOOSE n \in run : \A m \in run : m <= n

ImportRegions == {i \in DOMAIN folds : folds[i].fold_type = "Import"}

Covers(region, n) ==
    region.start_byte <= tree[n].start_byte /\ tree[n].end_byte <= region.end_byte

\* C8: an import statement with no other import in its run produces no Import
\* region, and every Import region covers at least two import statements.
C8_NoSingletonImport ==
    Extracted =>
        /\ \A n \in Nodes :
              (IsImport(n) /\ RunOf(n) = {n}) =>
                  \A i \in ImportRegions : ~Covers(folds[i], n)
        /\ \A i \in ImportRegions :
              Cardinality({n \in Nodes : IsImport(n) /\ Covers(folds[i], n)}) >= 2

\* an import of two lines alone between other statements, and a run of two
\* imports that was folded
C8_Witness ==
    /\ Extracted
    /\ \E n \in Nodes : IsImport(n) /\ RunOf(n) = {n} /\ multi_line(tree, n)
    /\ ImportRegions # {}

\* C9: with import folding enabled, every maximal run of two or more imports
\* that spans at least two lines (comments may stand inside the run and
\* before its first import) produces exactly one Import region, from the
\* start of the first import to the end of the last.
C9_ImportMerge ==
    (Extracted /\ config.fold_filter["Import"]) =>
        \A n \in Nodes :
            LET run == RunOf(n)
            IN  (/\ IsImport(n)
                 /\ Cardinality(run) >= 2
                 /\ tree[LastOf(run)].end_row > tree[FirstOf(run)].start_row)
                =>
                /\ Cardinality({i \in ImportRegions :
                        \E m \in run : Covers(folds[i], m)}) = 1
                /\ \E i \in ImportRegions :
                      /\ folds[i].start_byte = tree[FirstOf(run)].start_byte
                      /\ folds[i].end_byte = tree[LastOf(run)].end_byte

\* ---- chains ----------------------------------------------------------------
CallKind == IF lang = "Python" THEN "call" ELSE "call_expression"

MemberKind == IF lang = "Python" THEN "attribute" ELSE "member_expression"

\* the call a call is made on: the object of its function when the function
\* is a member access, 0 otherwise
Receiver(n) ==
    LET func == child_by_field_name(tree, n, "function")
    IN  IF func # 0 /\ tree[func].kind = MemberKind
        THEN child_by_field_name(tree, func, "object") ELSE 0

\* the calls counted leftward through the receiver chain from n
RECURSIVE CallsFrom(_)
CallsFrom(n) ==
    IF n = 0 \/ tree[n].kind # CallKind THEN 0 ELSE 1 + CallsFrom(Receiver(n))

ChainRegions == {i \in DOMAIN folds : folds[i].fold_type = "ChainedCall"}

\* C10: a call with fewer than 3 calls in its chain, or on one line, yields
\* no ChainedCall region; every ChainedCall region is that of a call node and
\* has the preview "...chain (N calls)", N the calls counted from that node,
\* in every preview mode.
C10_ChainThreshold ==
    Extracted =>
        /\ \A n \in Nodes :
              (tree[n].kind = CallKind /\ (CallsFrom(n) < 3 \/ ~multi_line(tree, n))) =>
                  RegionsAt(n, "ChainedCall") = {}
        /\ \A i \in ChainRegions :
              \E n \in Nodes :
                  /\ tree[n].kind = CallKind
                  /\ i \in RegionsAt(n, "ChainedCall")
                  /\ folds[i].preview =
                        [some |-> TRUE,
                         val |-> [text |-> "...chain (N calls)", N |-> CallsFrom(n)]]

\* a chain of three calls over several lines, folded under the Names mode,
\* whose inner chain of two calls is not
C10_Witness ==
    /\ Extracted
    /\ config.preview_mode = "Names"
    /\ Cardinality(ChainRegions) = 1
    /\ \E i \in ChainRegions : folds[i].preview.val.N = 3
    /\ \E n \in Nodes : tree[n].kind = CallKind /\ CallsFrom(n) = 2 /\ multi_line(tree, n)

(***************************************************************************)
(* Claims about the preview generators.                                    *)
(***************************************************************************)
FlowPreviewed == pc = "function_preview" /\ config.preview_mode = "Flow"

\* n lies strictly below a in the tree
RECURSIVE Below(_, _)
Below(n, a) ==
    IF tree[n].parent = 0 THEN FALSE
    ELSE tree[n].parent = a \/ Below(tree[n].parent, a)

\* the keyword a node stands for, "" when it stands for none
KeywordOf(n) ==
    LET kw == IF lang = "Python" THEN py_flow_keyword(tree[n].kind)
              ELSE js_flow_keyword(tree[n].kind)
    IN  IF kw = <<>> THEN "" ELSE kw[1]

\* the kinds for which the extractor of the language emits a Block region, and
\* its class kinds
FunctionLike == IF lang = "Python" THEN PyFunctionKinds ELSE JsFunctionKinds

ClassLike == IF lang = "Python" THEN {"class_definition"} ELSE {"class_declaration", "class"}

\* the nodes of the body of the previewed function that stand for a keyword
KeywordNodes == {n \in 1..Len(tree) : Below(n, 4) /\ KeywordOf(n) # ""}

\* those inside a function-like or class-like construct nested in the body
Nested(n) ==
    \E a \in 1..Len(tree) :
        /\ Below(a, 4)
        /\ tree[a].kind \in FunctionLike \cup ClassLike
        /\ Below(n, a)

NoNestedConstruct ==
    \A a \in 1..Len(tree) : Below(a, 4) => tree[a].kind \notin FunctionLike \cup ClassLike

\* the keyword list of a Flow preview: what follows " -> ", without the "/"
FlowList(p) ==
    LET arrow == find(p, " -> ")
    IN  IF arrow = 0 THEN <<>>
        ELSE SelectSeq(SubSeq(p, arrow + 1, Len(p)), LAMBDA x : x # "/")

\* the first node of the body, in pre-order, that stands for keyword kw
FirstNode(kw) ==
    CHOOSE n \in KeywordNodes :
        KeywordOf(n) = kw /\ \A m \in KeywordNodes : KeywordOf(m) = kw => n <= m

\* the signature of the previewed function: its first line up to the delimiter
Signature == SubSeq(source, 1, 7)

FlowListDeterministic ==
    LET list == FlowList(preview_text.val)
    IN  /\ \A n \in KeywordNodes :
              Cardinality({i \in DOMAIN list : list[i] = KeywordOf(n)}) = 1
        /\ \A i \in DOMAIN list : \E n \in KeywordNodes : KeywordOf(n) = list[i]
        /\ \A i, j \in DOMAIN list : i < j => FirstNode(list[i]) < FirstNode(list[j])

OnlyNested ==
    {KeywordOf(n) : n \in {k \in KeywordNodes : Nested(k)}}
    \ {KeywordOf(n) : n \in {k \in KeywordNodes : ~Nested(k)}}

\* C12: a control-flow keyword that occurs only inside a function-like or
\* class-like construct nested in the body (every kind for which the same
\* extractor emits a Block region, and its class kinds) is absent from the
\* Flow preview of the outer Block.
C12_NoNestedKeywords ==
    FlowPreviewed =>
        \A kw \in OnlyNested :
            \A i \in DOMAIN FlowList(preview_text.val) : FlowList(preview_text.val)[i] # kw

NamesPreviewed ==
    /\ pc \in {"import_preview", "object_preview"}
    /\ config.preview_mode \in {"Names", "Flow"}

\* the names the previewed construct lists: the imported names of the run, or
\* the keys of the literal
ListedNames ==
    IF pc = "import_preview" THEN collect_import_modules(lang, source, tree, 2)
    ELSE IF lang = "Python" THEN extract_dict_keys(source, tree, 3)
    ELSE extract_object_keys(source, tree, 3)

\* the Minimal preview of the previewed construct
MinimalPreview ==
    IF pc = "import_preview"
    THEN <<ToString(import_walk(tree, next_sibling(tree, 2), 2, 1,
                                IF lang = "Python" THEN PyImportKinds ELSE JsImportKinds
                               ).import_count), " imports">>
    ELSE <<"{...} (", ToString(tree[3].end_row - tree[3].start_row + 1), " lines)">>

\* what a preview shows between the braces of a literal, or in all for a run
Shown(p) == IF pc = "object_preview" THEN SubSeq(p, 2, Len(p) - 1) ELSE p

\* C13: a list of n >= 1 names is shown in full when n <= 5 and otherwise as
\* its first 4 entries followed by ", +K more" with K = n - 4, so that shown
\* entries plus K equals n; with n = 0 the Minimal template is used.
C13_NamesTruncation ==
    NamesPreviewed =>
        LET names == ListedNames
            n     == Len(names)
            p     == preview_text.val
        IN  /\ n = 0 => p = MinimalPreview
            /\ (1 <= n /\ n <= 5) => Shown(p) = join(names, ", ")
            /\ n > 5 =>
                  Shown(p) = join(SubSeq(names, 1, 4), ", ") \o <<", +", ToString(n - 4), " more">>

\* a list of six names shown as four and ", +2 more"
C13_Witness ==
    /\ NamesPreviewed
    /\ Len(ListedNames) = 6
    /\ \E i \in DOMAIN preview_text.val :
          /\ preview_text.val[i] = ", +"
          /\ preview_text.val[i + 1] = "2"

ImportNamesPreviewed ==
    pc = "import_preview" /\ config.preview_mode \in {"Names", "Flow"}

\* C14: the imported names listed in an Import region's Names preview are
\* deduplicated in encounter order: no name occurs twice in the collected
\* list, each name stands at the position of its first occurrence, and the
\* count used for ", +K more" is the count of distinct names.
C14_ImportNamesDeduplicated ==
    ImportNamesPreviewed =>
        LET names    == collect_import_modules(lang, source, tree, 2)
            distinct == retain_unseen(names, {})
        IN  /\ \A i, j \in DOMAIN names : i # j => names[i] # names[j]
            /\ distinct # <<>> =>
                  preview_text.val
                      = IF Len(distinct) <= 5 THEN join(distinct, ", ")
                        ELSE join(SubSeq(distinct, 1, 4), ", ")
                             \o <<", +", ToString(Len(distinct) - 4), " more">>

SourcePreviewed == pc = "function_preview" /\ config.preview_mode = "Source"

\* the text of the previewed function
FunctionText == SubSeq(source, tree[2].start_byte + 1, tree[2].end_byte)

\* the first two lines of a text, joined by a space
FirstTwoLines(text) ==
    LET nl1  == find(text, "\n")
        rest == SubSeq(text, nl1 + 1, Len(text))
        nl2  == find(rest, "\n")
    IN  IF nl1 = 0 THEN text
        ELSE SubSeq(text, 1, nl1 - 1) \o <<" ">>
             \o (IF nl2 = 0 THEN rest ELSE SubSeq(rest, 1, nl2 - 1))

\* C15: the Source-mode preview of a Block is, in every language extractor,
\* the first two lines of the construct's source joined together and
\* truncated to at most 80 characters: it has at most 80 characters and no
\* line break.
C15_SourcePreviewBounded ==
    SourcePreviewed =>
        LET p == preview_text.val
        IN  /\ Len(p) <= 80
            /\ \A i \in DOMAIN p : p[i] # "\n"
            /\ p = SubSeq(FirstTwoLines(FunctionText), 1,
                          IF Len(FirstTwoLines(FunctionText)) < 80
                          THEN Len(FirstTwoLines(FunctionText)) ELSE 80)

(***************************************************************************)
(* Claims about the walk of the extractors.                                *)
(***************************************************************************)
\* C16: every candidate region returned by extraction has its preview
\* populated (not None), for every category, policy and preview mode, in both
\* extractors.
C16_PreviewPopulated ==
    Extracted => \A i \in DOMAIN folds : folds[i].preview.some

\* the block comments of a JavaScript/TypeScript file that span more than one
\* line and begin with the doc marker
DocMarked ==
    {n \in Nodes : tree[n].kind = "comment" /\ tree[n].text = "/**" /\ multi_line(tree, n)}

\* C17: in the JavaScript/TypeScript extractor a block comment spanning more
\* than one line that begins with "/**" yields a DocComment region whenever
\* doc folding is enabled (whatever the comment-folding flag is), and a
\* Comment region when doc folding is disabled and comment folding enabled.
C17_DocCommentCategory ==
    (Extracted /\ lang = "JavaScript") =>
        \A n \in DocMarked :
            /\ config.fold_filter["DocComment"] => RegionsAt(n, "DocComment") # {}
            /\ (~config.fold_filter["DocComment"] /\ config.fold_filter["Comment"])
                  => RegionsAt(n, "Comment") # {}

\* the policy of the run with the flag of category x flipped
Flipped(x) ==
    [config EXCEPT !.fold_filter[x] = ~config.fold_filter[x]]

OfType(fs, y) == SelectSeq(fs, LAMBDA f : f.fold_type = y)

\* flipping x leaves the regions of category y as they are
Unaffected(x, y) == OfType(folds, y) = OfType(Returned(Flipped(x)), y)

\* C18 as stated: for every tree and every two policies that differ only in
\* the flag of one category X, the regions of every other category that
\* extraction emits are identical.
C18_DisablingKeepsOthers ==
    Extracted => \A x, y \in FoldType : x # y => Unaffected(x, y)

\* C18 amended: the same, but for the pair Comment and DocComment in the
\* JavaScript/TypeScript extractor, whose flags decide together which region a
\* comment yields.
C18_DisablingKeepsOthersButComments ==
    Extracted =>
        \A x, y \in FoldType :
            (x # y /\ ~(lang = "JavaScript" /\ {x, y} = {"Comment", "DocComment"}))
                => Unaffected(x, y)

\* a method inside a class body keeps its Block region with class folding off
C18_Witness ==
    /\ Extracted
    /\ ~config.fold_filter["ClassBody"]
    /\ \E c \in Nodes :
          /\ ClassBodyOf(c) # 0
          /\ \E n \in Nodes :
                /\ tree[n].parent = ClassBodyOf(c)
                /\ FunctionBody(n) # 0
                /\ RegionsAt(FunctionBody(n), "Block") # {}

ErrorNodes == {n \in Nodes : tree[n].kind = "ERROR"}

\* C19: no candidate region is emitted for an error node, and no emitted
\* region's byte range covers the byte range of an error node.
C19_ErrorsNeverFolded ==
    Extracted =>
        \A e \in ErrorNodes : \A i \in DOMAIN folds :
            ~(folds[i].start_byte <= tree[e].start_byte
              /\ tree[e].end_byte <= folds[i].end_byte)

(***************************************************************************)
(* Claims about the totality of rendering.                                 *)
(***************************************************************************)
\* a byte offset the rope of the text cannot convert to a char index
BeyondText(b) == b > len_bytes(source)

\* C20: for every text and every list of regions, whatever their byte
\* ranges (past the end of the text, start after end, empty, duplicate),
\* render and render_ansi return a string: no run ends in a panic.
C20_RenderTotal == pc # "panicked"

\* what holds instead: a run panics only when a region that should fold
\* starts past the end of the text
RenderPanicsOnlyBeyondText ==
    pc = "panicked" =>
        \E i \in DOMAIN folds :
            /\ BeyondText(folds[i].start_byte)
            /\ should_fold(config.fold_filter, folds[i].fold_type)


(***************************************************************************)
(* Claims about the resolver as a function of the candidate list.          *)
(***************************************************************************)
\* a text of one-byte characters that every resolver candidate lies inside
FullText == [i \in 1..MaxByte |-> 1]

\* C21: resolving the resolver's own output returns it unchanged, and
\* rendering a text with the candidate list gives the same output, plain and
\* styled, as rendering it with the resolved list.
C21_ResolveIdempotent ==
    pc = "resolved" =>
        /\ Resolve(active) = active
        /\ \A ansi \in BOOLEAN :
              RenderWith(FullText, folds, config.fold_filter, ansi)
                  = RenderWith(FullText, active, config.fold_filter, ansi)

\* a run where the resolver dropped a nested candidate and kept two that
\* partially overlap
C21_Witness ==
    /\ pc = "resolved"
    /\ Len(folds) = 3
    /\ Len(active) = 2
    /\ overlaps(active[1], active[2])
    /\ active[1].start_byte < active[2].start_byte

(***************************************************************************)
(* Claims about the scanner.                                               *)
(***************************************************************************)
\* what a worker holds belongs to the file it took, and to no other worker
WorkersApart ==
    \A w \in DOMAIN scan.workers :
        LET wk == scan.workers[w]
        IN  /\ wk.stage \in {"content", "parser"} =>
                  wk.content = scan.source_files[wk.file].content.text
            /\ wk.stage = "parser" => wk.parser = scan.source_files[wk.file].language
            /\ wk.stage # "idle" =>
                  \A v \in DOMAIN scan.workers \ {w} : scan.workers[v].file # wk.file

\* C22: for any number of workers and any interleaving of their steps, scan
\* returns for each discovered file the fold list and the parsed and error
\* flags that processing the files one by one returns; what a worker reads
\* while it handles a file is that file's text and parser only.
C22_ParallelEqualsSequential ==
    /\ WorkersApart
    /\ \A i \in DOMAIN scan.source_files :
          scan.results[i].some =>
              scan.results[i].val
                  = parse_file(i, scan.source_files[i], config, scan.broken)
    /\ pc = "scanned" =>
          scan.files = scan_sequential(scan.source_files, config, scan.broken)

\* a scan of two files by two workers in which the second file was finished
\* first and only the first file has a region
C22_Witness ==
    /\ pc = "scanned"
    /\ Len(scan.source_files) = 2
    /\ Len(scan.workers) = 2
    /\ scan.finished = <<2, 1>>
    /\ scan.files[1].folds # <<>>
    /\ scan.files[2].parsed /\ scan.files[2].folds = <<>>

(***************************************************************************)
(* Claims about the loop of render.                                        *)
(***************************************************************************)
\* two ranges that overlap without one containing the other
PartialOverlap(a, b) == overlaps(a, b) /\ ~contains(a, b) /\ ~contains(b, a)

\* any two candidates are nested or disjoint
NestedOrDisjoint ==
    \A i, j \in DOMAIN folds : ~PartialOverlap(folds[i], folds[j])

\* the resolved regions whose category the policy enables
EnabledActive == EnabledSubList(active, config.fold_filter)

\* C23: when any two candidate ranges are nested or disjoint, every region of
\* the resolved set whose category is enabled is replaced by a placeholder,
\* under every policy; the guard on start_byte < cursor skips a region only
\* when two candidates partially overlap.
C23_GuardNeverFires ==
    (Rendered /\ NestedOrDisjoint) => replaced = EnabledActive

\* a render of a candidate nested in another and disabled, the outer one
\* replaced
C23_Witness ==
    /\ Rendered
    /\ NestedOrDisjoint
    /\ Len(folds) = 2
    /\ contains(folds[2], folds[1]) /\ ~SameRange(folds[1], folds[2])
    /\ ~should_fold(config.fold_filter, folds[1].fold_type)
    /\ replaced = <<folds[2]>>

\* the state of the loop of the run after its first k resolved regions
LoopAfter(k) ==
    RenderLoop(source, config.fold_filter, pc = "render_ansi", RenderStart,
               SubSeq(active, 1, k))

\* the k-th resolved region is skipped: its category is disabled or it starts
\* before the cursor
Skipped(k) ==
    \/ ~should_fold(config.fold_filter, active[k].fold_type)
    \/ active[k].start_byte < LoopAfter(k - 1).current_byte

\* the placeholders of the rendered string, in order
Placeholders == SelectSeq(output, LAMBDA tok : ~IsByte(tok))

PlaceholderOf(fold) ==
    IF pc = "render_ansi" THEN format_placeholder_ansi(fold) ELSE format_placeholder(fold)

\* C24: during one render of candidates with start_byte <= end_byte, partial
\* overlaps allowed, the cursor never decreases, a skipped region (disabled
\* category or start_byte < cursor) leaves the cursor unchanged, and the byte
\* ranges replaced by placeholders are pairwise non-overlapping and appear in
\* the output in ascending start_byte order.
C24_CursorMonotone ==
    Rendered =>
        /\ \A k \in DOMAIN active :
              /\ LoopAfter(k - 1).current_byte <= LoopAfter(k).current_byte
              /\ Skipped(k) => LoopAfter(k) = LoopAfter(k - 1)
        /\ \A i, j \in DOMAIN replaced :
              i < j => /\ ~overlaps(replaced[i], replaced[j])
                       /\ replaced[i].start_byte <= replaced[j].start_byte
        /\ Placeholders = [i \in DOMAIN replaced |-> PlaceholderOf(replaced[i])]

\* a render of two partially overlapping candidates: the first is replaced
\* and moves the cursor, the second starts before the cursor and is skipped
C24_Witness ==
    /\ Rendered
    /\ Len(active) = 2
    /\ PartialOverlap(active[1], active[2])
    /\ replaced = <<active[1]>>
    /\ LoopAfter(1).current_byte > 0
    /\ Skipped(2)
    /\ should_fold(config.fold_filter, active[2].fold_type)

(***************************************************************************)
(* Claims about call chains.                                               *)
(***************************************************************************)
\* n is the receiver of a further call: the object of a member access that
\* is the function of a call
IsReceiver(n) ==
    \E c \in Nodes : tree[c].kind = CallKind /\ Receiver(c) = n

\* the calls of the chain that ends in n: n and the calls leftward of it
RECURSIVE ChainCalls(_)
ChainCalls(n) ==
    IF n = 0 \/ tree[n].kind # CallKind THEN {} ELSE {n} \cup ChainCalls(Receiver(n))

\* the outermost call of a chain of three or more calls on several lines
OutermostOfChain(n) ==
    /\ tree[n].kind = CallKind
    /\ ~IsReceiver(n)
    /\ CallsFrom(n) >= 3
    /\ multi_line(tree, n)

\* C25: with chain folding enabled, every call chain of depth >= 3 whose
\* outermost call spans more than one line yields exactly one ChainedCall
\* region, that of the outermost call: none for an inner call of the chain,
\* and not none when the result of the chain is used further, in both
\* extractors.
C25_OneRegionPerChain ==
    (Extracted /\ config.fold_filter["ChainedCall"]) =>
        \A n \in Nodes :
            OutermostOfChain(n) =>
                /\ Cardinality(RegionsAt(n, "ChainedCall")) = 1
                /\ \A m \in ChainCalls(n) \ {n} : RegionsAt(m, "ChainedCall") = {}

(***************************************************************************)
(* Claims about the signature of a construct.                              *)
(***************************************************************************)
MinimalFunctionPreviewed == pc = "function_preview" /\ config.preview_mode = "Minimal"

\* the offset of the delimiter that opens the body of the previewed function:
\* the '{' its statement block starts with, or the last ':' in front of its
\* block
BodyDelimiter ==
    LET body == child_by_field_name(tree, 2, "body")
    IN  IF lang = "Python"
        THEN CHOOSE p \in 0..tree[body].start_byte :
                 /\ source[p + 1] = ":"
                 /\ \A q \in (p + 1)..(tree[body].start_byte - 1) : source[q + 1] # ":"
        ELSE tree[body].start_byte

\* C26: the signature used as the Minimal preview of a Block is the source
\* text from the start of the construct up to, not including, the delimiter
\* that opens its body, trimmed, also when the same character occurs earlier
\* in the header.
C26_SignatureUpToBody ==
    MinimalFunctionPreviewed =>
        preview_text.val = trim(SubSeq(source, tree[2].start_byte + 1, BodyDelimiter))

(***************************************************************************)
(* Claims about plain and styled rendering.                                *)
(***************************************************************************)
\* the rendered string with the styling of every placeholder removed
Unstyled(out) ==
    [i \in DOMAIN out |-> IF IsByte(out[i]) THEN out[i] ELSE [out[i] EXCEPT !.style = None]]

\* "/* {preview} ({line_count} lines) */" or "/* {preview} */", the preview
\* "..." when absent, between dim + the colour of the category and reset
StyledPlaceholder(fold) ==
    [preview |-> IF fold.preview = None THEN "..." ELSE fold.preview.val,
     lines   |-> IF fold.line_count > 1 THEN Some(fold.line_count) ELSE None,
     style   |-> Some(CASE fold.fold_type = "Block" -> "Blue"
                        [] fold.fold_type = "Comment" -> "Gray")]

\* C27: render_ansi folds exactly the regions render folds, and its output is
\* render's output with each placeholder wrapped in dim + category colour and
\* reset; removing the inserted sequences yields the plain output.
C27_StyledIsPlainWrapped ==
    pc = "render_ansi" =>
        LET plain == render(source, folds, config.fold_filter)
        IN  /\ replaced = plain.replaced
            /\ Unstyled(output) = plain.result
            /\ Placeholders = [i \in DOMAIN replaced |-> StyledPlaceholder(replaced[i])]

\* a styled render that replaced a function body of three lines and a comment
\* of one line, with text kept around them
C27_Witness ==
    /\ pc = "render_ansi"
    /\ Len(replaced) = 2
    /\ {replaced[1].fold_type, replaced[2].fold_type} = {"Block", "Comment"}
    /\ \E i \in DOMAIN output : IsByte(output[i])

(***************************************************************************)
(* Claims about the order of the candidates.                               *)
(***************************************************************************)
\* the candidate list in the order given by a permutation of its indexes
Reordered(fs, p) == [i \in DOMAIN fs |-> fs[p[i]]]

\* C28: every permutation of the candidate list resolves to the same result,
\* category and preview of each accepted region included, also when two
\* candidates of different categories have the same byte range; the rendered
\* output does not depend on the order of the candidates.
C28_OrderIndependent ==
    Rendered =>
        \A p \in Permutations(DOMAIN folds) :
            /\ Resolve(Reordered(folds, p)) = active
            /\ RenderWith(source, Reordered(folds, p), config.fold_filter,
                          pc = "render_ansi").result = output

\* what holds instead: the byte ranges of the result do not depend on the
\* order, and neither does the result when no two candidates of different
\* categories have the same byte range
OrderIndependentRanges ==
    Rendered =>
        \A p \in Permutations(DOMAIN folds) :
            LET other == Resolve(Reordered(folds, p))
            IN  /\ Len(other) = Len(active)
                /\ \A i \in DOMAIN active : SameRange(other[i], active[i])
                /\ (\A i, j \in DOMAIN folds :
                        SameRange(folds[i], folds[j]) => folds[i] = folds[j])
                   => other = active

(***************************************************************************)
(* Claims about render_file.                                               *)
(***************************************************************************)
FileRendered == pc \in {"render_file", "render_file_ansi"}

\* C29: fold_count of the RenderedFile equals the number of placeholders in
\* its content, and lines_hidden the sum of line_count - 1 over the regions
\* that were replaced, also for files whose candidates are nested.
C29_FoldCountIsPlaceholders ==
    FileRendered =>
        /\ rendered_file.val.fold_count
              = Cardinality({i \in DOMAIN rendered_file.val.content :
                                ~IsByte(rendered_file.val.content[i])})
        /\ rendered_file.val.lines_hidden = SumLinesHidden(replaced)

\* what holds instead: fold_count and lines_hidden count every candidate of
\* the extraction, and the counts agree when no candidate is nested in another
FoldCountIsCandidates ==
    FileRendered =>
        /\ rendered_file.val.fold_count = Len(folds)
        /\ rendered_file.val.lines_hidden = SumLinesHidden(folds)
        /\ (\A i, j \in DOMAIN folds : i # j => ~contains(folds[i], folds[j]))
              => C29_FoldCountIsPlaceholders

(***************************************************************************)
(* Claims about the loop of filter_overlapping_folds.                      *)
(***************************************************************************)
\* the candidates in the order render hands them to the filter
Visited == SortByFoldKey(folds)

\* the accepted list after the first k candidates were visited
AcceptedAfter(k) == FilterLoop(SubSeq(Visited, 1, k), <<>>)

IsPrefix(s, t) == Len(s) <= Len(t) /\ SubSeq(t, 1, Len(s)) = s

\* C30: when the candidates are visited in (start_byte ascending, end_byte
\* descending) order, the retain step of filter_overlapping_folds removes
\* nothing: the accepted list only grows, an accepted region stays accepted to
\* the end, and the list is in ascending start_byte order before the final
\* sort.
C30_RetainRemovesNothing ==
    pc = "resolved" =>
        /\ \A k \in DOMAIN Visited :
              /\ IsPrefix(AcceptedAfter(k - 1), AcceptedAfter(k))
              /\ \A i \in DOMAIN AcceptedAfter(k - 1) :
                    ~contains(Visited[k], AcceptedAfter(k - 1)[i])
                    \/ contains(AcceptedAfter(k - 1)[i], Visited[k])
        /\ \A i, j \in DOMAIN AcceptedAfter(Len(Visited)) :
              i < j => AcceptedAfter(Len(Visited))[i].start_byte
                           <= AcceptedAfter(Len(Visited))[j].start_byte
        /\ active = AcceptedAfter(Len(Visited))

\* a run whose candidates were supplied innermost first: an inner candidate,
\* the candidate that contains it, and one that partially overlaps the outer
C30_Witness ==
    /\ pc = "resolved"
    /\ Len(folds) = 3
    /\ contains(folds[2], folds[1]) /\ ~SameRange(folds[1], folds[2])
    /\ PartialOverlap(folds[2], folds[3])
    /\ folds[3].start_byte < folds[2].start_byte
    /\ Len(active) = 2

====
